---- MODULE Spec2Model ----
(***************************************************************************)
(* GLITCHLAB pipeline controller: Controller.run with its workspace,       *)
(* boundary enforcer, change applicator, fix loop and history log.         *)
(* Strings are sequences of one-character strings, so that                 *)
(* str.startswith and path joining are computed, not assumed.              *)
(***************************************************************************)
EXTENDS Integers, Sequences, FiniteSets, TLC

(***************************************************************************)
(* Bounds of the model                                                     *)
(***************************************************************************)
MaxFixAttempts == 2
MaxChanges == 1
MaxPlanSteps == 1
MaxPlanFiles == 1
MaxCalls == 4
MaxCallTokens == 2
MaxCallCost == 2
MaxCommandLen == 3
MaxExecutions == 1
MaxCheckFiles == 2
MaxApplied == 2
MaxTasks == 2
MaxRecords == 2
MaxLines == 3
MaxWsCalls == 3
MaxConstraints == 2
MaxRuns == 2

(***************************************************************************)
(* Strings and paths                                                       *)
(***************************************************************************)
SLASH == "/"
DOT == "."

\* str.startswith(prefix)
StartsWith(s, p) == Len(p) <= Len(s) /\ SubSeq(s, 1, Len(p)) = p

\* components of a path string, split at "/"
RECURSIVE SplitFrom(_, _, _)
SplitFrom(s, i, cur) ==
    IF i > Len(s) THEN <<cur>>
    ELSE IF s[i] = SLASH THEN <<cur>> \o SplitFrom(s, i + 1, <<>>)
    ELSE SplitFrom(s, i + 1, Append(cur, s[i]))

Split(s) == SplitFrom(s, 1, <<>>)

\* what the operating system does with the components of an absolute path:
\* empty and "." components are dropped, ".." removes the component before it
RECURSIVE NormFrom(_, _, _)
NormFrom(parts, i, acc) ==
    IF i > Len(parts) THEN acc
    ELSE IF parts[i] = <<>> \/ parts[i] = <<DOT>> THEN NormFrom(parts, i + 1, acc)
    ELSE IF parts[i] = <<DOT, DOT>>
         THEN NormFrom(parts, i + 1,
                       IF Len(acc) = 0 THEN acc ELSE SubSeq(acc, 1, Len(acc) - 1))
    ELSE NormFrom(parts, i + 1, Append(acc, parts[i]))

ResolvePath(s) == NormFrom(Split(s), 1, <<>>)

\* pathlib: working_dir / file  (an absolute right operand replaces the left)
JoinPath(dir, file) ==
    IF Len(file) > 0 /\ file[1] = SLASH THEN file ELSE dir \o <<SLASH>> \o file

\* the resolved path lies strictly below the directory
IsInside(path, dir) ==
    LET p == ResolvePath(path)
        d == ResolvePath(dir)
    IN Len(d) < Len(p) /\ SubSeq(p, 1, Len(d)) = d

(***************************************************************************)
(* The repository, its configuration and the values agents can emit        *)
(***************************************************************************)
RepoPath == <<"/", "r">>
WorktreeDir == <<"w">>
TaskIds == {<<"t">>}

\* config.boundaries.protected_paths
ProtectedPaths == << <<"c", "/">> >>

\* the 'file' values an agent can emit: a protected file, a plain file,
\* a path leaving the worktree through "..", and an absolute path
AgentFiles == { <<"c", "/", "x">>, <<"d">>,
                <<".", ".", "/", ".", ".", "/", "d">>, <<"/", "r", "/", "d">> }

\* the files a plan names
PlanFileValues == { <<"c", "/", "x">>, <<"d">> }

\* Workspace.__init__: worktree_path and branch_name
WorktreePath(task_id) == RepoPath \o <<SLASH>> \o WorktreeDir \o <<SLASH>> \o task_id

BranchName(task_id) ==
    <<"g", "l", "i", "t", "c", "h", "l", "a", "b", "/">> \o task_id

(***************************************************************************)
(* Tool sandbox (workspace/tools.py)                                       *)
(***************************************************************************)
\* config.allowed_tools and config.blocked_patterns
AllowedTools == << <<"p">> >>
BlockedPatterns == << <<"!">> >>

NoCommand == <<"-", "n", "o", "n", "e", "-">>
\* an allowed command and one outside the allowlist
TestCommands == { <<"p">>, <<"q">> }

\* Python: pattern in command
Contains(s, p) ==
    \E i \in 1..(Len(s) - Len(p) + 1) : SubSeq(s, i, i + Len(p) - 1) = p

SPACE == " "

\* str.strip(): leading and trailing whitespace removed
RECURSIVE LStrip(_)
LStrip(s) == IF Len(s) > 0 /\ s[1] = SPACE THEN LStrip(Tail(s)) ELSE s

RECURSIVE RStrip(_)
RStrip(s) ==
    IF Len(s) > 0 /\ s[Len(s)] = SPACE THEN RStrip(SubSeq(s, 1, Len(s) - 1)) ELSE s

Strip(s) == RStrip(LStrip(s))

\* ToolExecutor._is_allowed
IsAllowedCommand(command) ==
    \E i \in 1..Len(AllowedTools) : StartsWith(Strip(command), AllowedTools[i])

\* ToolExecutor.execute raises ToolViolationError before spawning anything
ToolViolation(command) ==
    \/ \E i \in 1..Len(BlockedPatterns) : Contains(command, BlockedPatterns[i])
    \/ ~IsAllowedCommand(command)

\* the command strings handed to execute: an allowed tool, alone or with an
\* argument, a tool whose name merely begins like an allowed one, blocked
\* patterns, and surrounding whitespace
CommandChars == {"p", "x", SPACE, "!"}

Commands == UNION { [1..n -> CommandChars] : n \in 1..MaxCommandLen }

\* how subprocess.run ends: exit status 0, a non-zero exit status, or
\* TimeoutExpired
ProcessOutcomes == {"ok", "fail", "timeout"}

\* ToolExecutor.__init__
NewExecutor == [log |-> <<>>, spawned |-> <<>>, raised |-> FALSE]

\* the deny loop of execute: the first blocked pattern found in the command
IsBlocked(command) ==
    \E i \in 1..Len(BlockedPatterns) : Contains(command, BlockedPatterns[i])

\* an execute that leaves out the blocked-pattern loop
ExecuteResultWithoutDenyCheck(command, outcome) ==
    IF ~IsAllowedCommand(command)
    THEN [command |-> command, stderr |-> "DENIED", returncode |-> -1,
          allowed |-> FALSE]
    ELSE [command |-> command,
          stderr |-> IF outcome = "timeout" THEN "TIMEOUT" ELSE "",
          returncode |-> CASE outcome = "ok" -> 0
                           [] outcome = "fail" -> 1
                           [] outcome = "timeout" -> -1,
          allowed |-> TRUE]

\* ToolExecutor.execute: the ToolResult it appends to the execution log
ExecuteResult(command, outcome) ==
    IF IsBlocked(command)
    THEN [command |-> command, stderr |-> "BLOCKED", returncode |-> -1,
          allowed |-> FALSE]
    ELSE IF ~IsAllowedCommand(command)
    THEN [command |-> command, stderr |-> "DENIED", returncode |-> -1,
          allowed |-> FALSE]
    ELSE [command |-> command,
          stderr |-> IF outcome = "timeout" THEN "TIMEOUT" ELSE "",
          returncode |-> CASE outcome = "ok" -> 0
                           [] outcome = "fail" -> 1
                           [] outcome = "timeout" -> -1,
          allowed |-> TRUE]

(***************************************************************************)
(* Boundary enforcer (governance/__init__.py)                              *)
(***************************************************************************)
Range(q) == { q[i] : i \in 1..Len(q) }

\* list(set(files)): the distinct elements, in some order
SetToSeq(S) ==
    CHOOSE q \in [1..Cardinality(S) -> S] : Range(q) = S

\* inner loop of BoundaryEnforcer.check: one entry per protected path that
\* the file starts with
RECURSIVE FileViolations(_, _, _)
FileViolations(protected, f, j) ==
    IF j > Len(protected) THEN <<>>
    ELSE (IF StartsWith(f, protected[j]) THEN <<f>> ELSE <<>>)
         \o FileViolations(protected, f, j + 1)

\* outer loop of BoundaryEnforcer.check: the violations list
RECURSIVE Violations(_, _, _)
Violations(protected, files, i) ==
    IF i > Len(files) THEN <<>>
    ELSE FileViolations(protected, files[i], 1) \o Violations(protected, files, i + 1)

\* BoundaryEnforcer.check of an enforcer with the given protected paths:
\* raises BoundaryViolation, or returns the list
EnforcerCheck(protected, files, allowCore) ==
    LET v == Violations(protected, files, 1)
    IN [raised |-> (Len(v) > 0 /\ ~allowCore), violations |-> v]

\* a check that refuses protected files whatever allow_core says
CheckIgnoringAllowCore(files, allowCore) ==
    LET v == Violations(ProtectedPaths, files, 1)
    IN [raised |-> Len(v) > 0, violations |-> v]

\* self.boundary.check: the controller's enforcer holds the configured
\* protected paths
Check(files, allowCore) == EnforcerCheck(ProtectedPaths, files, allowCore)

\* the protected_paths an enforcer can be built with: none, a directory
\* named with and without the trailing slash, a directory and one below it
ProtectedLists == { <<>>, << <<"c">> >>, << <<"c", "/">> >>,
                    << <<"c">>, <<"c", "/", "s">> >> }

\* the files handed to check: files below the protected directories, a
\* file whose name begins like a protected directory, and a plain file
CheckFileValues == { <<"c", "/", "x">>, <<"c", "/", "s", "/", "x">>, <<"c", "x">>, <<"d">> }

CheckFiles == UNION { [1..n -> CheckFileValues] : n \in 0..MaxCheckFiles }

NoCheck == [protected |-> <<>>, called |-> FALSE]

\* the files list that check_plan builds: plan["files_likely_affected"]
\* itself, extended in place with the files of every step
RECURSIVE StepFiles(_, _)
StepFiles(steps, i) ==
    IF i > Len(steps) THEN <<>>
    ELSE steps[i].files \o StepFiles(steps, i + 1)

PlanFiles(plan) == plan.files_likely_affected \o StepFiles(plan.steps, 1)

\* BoundaryEnforcer.check_plan
CheckPlan(plan, allowCore) == Check(SetToSeq(Range(PlanFiles(plan))), allowCore)

\* the plan object after check_plan: files.extend() wrote through the alias
PlanAfterCheck(plan) == [plan EXCEPT !.files_likely_affected = PlanFiles(plan)]

(***************************************************************************)
(* Change applicator (controller.py)                                       *)
(***************************************************************************)
\* A change carries the fields apply_changes reads: file, action, whether a
\* non-empty content / patch is present; and the two answers of the
\* environment: whether the target exists and whether git accepts the patch.
\* The state of the applicator is the set of resolved paths written or
\* removed for an agent (writes) and the returned log (applied).
ChangeValues ==
    [file : AgentFiles, action : {"create"},
     content : {TRUE}, patch : {FALSE}, patch_ok : {FALSE}, exists : {FALSE}]
    \cup
    [file : AgentFiles, action : {"delete"},
     content : {FALSE}, patch : {FALSE}, patch_ok : {FALSE}, exists : BOOLEAN]
    \cup
    [file : AgentFiles, action : {"modify"},
     content : BOOLEAN, patch : {FALSE}, patch_ok : {FALSE}, exists : {TRUE}]
    \cup
    [file : AgentFiles, action : {"modify"},
     content : BOOLEAN, patch : {TRUE}, patch_ok : BOOLEAN, exists : {TRUE}]

\* the path a change is applied to: working_dir / change["file"], resolved
Target(working_dir, file) == ResolvePath(JoinPath(working_dir, file))

\* _apply_patch: git apply refuses a patch that leaves the working directory
PatchApplies(working_dir, ch) ==
    ch.patch_ok /\ IsInside(JoinPath(working_dir, ch.file), working_dir)

WriteFile(st, t, entry) ==
    [writes |-> st.writes \cup {t}, applied |-> Append(st.applied, entry)]

\* one iteration of the loop of apply_changes
ApplyChange(working_dir, ch, st) ==
    LET t == Target(working_dir, ch.file)
    IN CASE ch.action = "create" -> WriteFile(st, t, <<"CREATE", ch.file>>)
         [] ch.action = "delete" ->
              IF ch.exists
              THEN WriteFile(st, t, <<"DELETE", ch.file>>)
              ELSE st
         [] ch.action = "modify" ->
              IF ch.patch
              THEN IF PatchApplies(working_dir, ch)
                   THEN WriteFile(st, t, <<"PATCH", ch.file>>)
                   ELSE IF ch.content
                        THEN WriteFile(st, t, <<"MODIFY_FALLBACK", ch.file>>)
                        ELSE [st EXCEPT !.applied = Append(@, <<"FAIL", ch.file>>)]
              ELSE IF ch.content
                   THEN WriteFile(st, t, <<"MODIFY", ch.file>>)
                   ELSE [st EXCEPT !.applied = Append(@, <<"SKIP", ch.file>>)]
         [] OTHER -> st

\* one iteration of the loop of apply_tests: the test file is written with
\* its full content
ApplyTest(working_dir, file, st) ==
    WriteFile(st, Target(working_dir, file), <<"TEST", file>>)

(***************************************************************************)
(* History log (history.py)                                                *)
(***************************************************************************)
EmptyDict == [k \in {} |-> TRUE]

Put(d, k, v) == (k :> v) @@ d

\* TaskHistory._summarize_events
RECURSIVE SummarizeFrom(_, _, _, _)
SummarizeFrom(events, i, summary, fix_attempts) ==
    IF i > Len(events) THEN Put(summary, "fix_attempts", fix_attempts)
    ELSE LET etype == events[i].type
             data == events[i].data
         IN CASE etype = "plan_created" ->
                   SummarizeFrom(events, i + 1,
                                 Put(summary, "plan_steps", data.steps), fix_attempts)
              [] etype = "tests_failed" ->
                   SummarizeFrom(events, i + 1, summary, fix_attempts + 1)
              [] etype = "tests_passed" ->
                   SummarizeFrom(events, i + 1,
                                 Put(summary, "tests_passed_on_attempt", data.attempt),
                                 fix_attempts)
              [] etype = "security_review" ->
                   SummarizeFrom(events, i + 1,
                                 Put(summary, "security_verdict", data.verdict),
                                 fix_attempts)
              [] etype = "release_assessment" ->
                   SummarizeFrom(events, i + 1,
                                 Put(summary, "version_bump", data.bump), fix_attempts)
              [] OTHER -> SummarizeFrom(events, i + 1, summary, fix_attempts)

\* a summary whose failure counter starts at one
SummarizeEventsFromOne(events) == SummarizeFrom(events, 1, EmptyDict, 1)

SummarizeEvents(events) == SummarizeFrom(events, 1, EmptyDict, 0)

\* an entry built with the status the result started with
HistoryEntryInitialStatus(res) ==
    [task_id |-> res.task_id, status |-> "pending", pr_url |-> res.pr_url,
     branch |-> res.branch, error |-> res.error, budget |-> res.budget,
     events_summary |-> SummarizeEvents(res.events)]

\* the entry TaskHistory.record builds from a result
HistoryEntry(res) ==
    [task_id |-> res.task_id, status |-> res.status, pr_url |-> res.pr_url,
     branch |-> res.branch, error |-> res.error, budget |-> res.budget,
     events_summary |-> SummarizeEvents(res.events)]

(***************************************************************************)
(* Change applicator: what apply_changes does to the content of a file    *)
(***************************************************************************)
\* None for a key the change does not carry, and for a file that does not
\* exist
Absent == <<"-", "n", "o", "n", "e", "-">>

\* Python truthiness of change.get(key): neither None nor the empty string
Truthy(v) == v # Absent /\ v # <<>>

\* what the one file of the working directory can hold before the changes
FileContents == {Absent, <<"a">>, <<"a", "a">>}

\* change["content"]: missing, empty, or a full file
ChangeContents == {Absent, <<>>, <<"c">>}

\* change["patch"]: missing, empty, or a unified diff whose hunk turns a
\* file holding "a" into one holding "b" and fits no other content
ChangePatches == {Absent, <<>>, <<"a", ">", "b">>}

\* change["surgical_blocks"]
ChangeBlocks == { <<>>,
                  << [search |-> <<"a">>, replace |-> <<"b">>] >>,
                  << [search |-> <<"a">>, replace |-> <<"b">>],
                     [search |-> <<"a">>, replace |-> <<>>] >>,
                  << [search |-> <<"b">>, replace |-> <<"a">>] >> }

FileChanges == [action : {"create", "modify", "delete"}, content : ChangeContents,
                patch : ChangePatches, surgical_blocks : ChangeBlocks]

\* _apply_patch: git apply --check and git apply both succeed when the
\* subprocesses run normally and the hunk fits the file; anything else,
\* exceptions included, gives False
ApplyPatch(disk, patch, git_runs) ==
    IF git_runs /\ patch = <<"a", ">", "b">> /\ disk = <<"a">>
    THEN [success |-> TRUE, disk |-> <<"b">>]
    ELSE [success |-> FALSE, disk |-> disk]

\* a modify branch that gives up when the patch fails
ModifyFileWithoutFallback(disk, change, git_runs) ==
    IF Truthy(change.patch)
    THEN LET r == ApplyPatch(disk, change.patch, git_runs)
         IN IF r.success THEN [disk |-> r.disk, applied |-> <<"PATCH">>]
            ELSE [disk |-> disk, applied |-> <<"FAIL">>]
    ELSE IF Truthy(change.content)
         THEN [disk |-> change.content, applied |-> <<"MODIFY">>]
         ELSE [disk |-> disk, applied |-> <<"SKIP">>]

\* the modify branch of apply_changes
ModifyFile(disk, change, git_runs) ==
    IF Truthy(change.patch)
    THEN LET r == ApplyPatch(disk, change.patch, git_runs)
         IN IF r.success THEN [disk |-> r.disk, applied |-> <<"PATCH">>]
            ELSE IF Truthy(change.content)
                 THEN [disk |-> change.content, applied |-> <<"MODIFY_FALLBACK">>]
                 ELSE [disk |-> disk, applied |-> <<"FAIL">>]
    ELSE IF Truthy(change.content)
         THEN [disk |-> change.content, applied |-> <<"MODIFY">>]
         ELSE [disk |-> disk, applied |-> <<"SKIP">>]

\* one pass of the loop of apply_changes: the file afterwards and what is
\* appended to the applied list
ApplyToFile(disk, change, git_runs) ==
    CASE change.action = "create" ->
           [disk |-> IF change.content = Absent THEN <<>> ELSE change.content,
            applied |-> <<"CREATE">>]
      [] change.action = "delete" ->
           IF disk # Absent THEN [disk |-> Absent, applied |-> <<"DELETE">>]
           ELSE [disk |-> disk, applied |-> <<>>]
      [] change.action = "modify" -> ModifyFile(disk, change, git_runs)

NewApplier == [disk |-> Absent, applied |-> <<>>, count |-> 0]

(***************************************************************************)
(* Parallel runner (parallel.py)                                           *)
(***************************************************************************)
\* a task file without an "id" key
NoId == <<>>

\* the task files handed to run_parallel: the stem of the file name and the
\* "id" key of its YAML
TaskFileValues == [stem : {<<"s">>, <<"t">>}, id : {NoId, <<"u">>}]

TaskFileLists == UNION { [1..n -> TaskFileValues] : n \in 1..MaxTasks }

WorkerCounts == {1, 2}

\* Task.from_yaml: task_id = data.get("id", path.stem)
TaskIdOf(file) == IF file.id = NoId THEN file.stem ELSE file.id

\* a worker that hands the caller's flag on to its Controller
WorkerAutoApproveFromCaller(auto_approve) == auto_approve

\* _run_single_task: Controller(..., auto_approve=True, ...)
WorkerAutoApprove(auto_approve) == TRUE

\* the except branches of _run_single_task and of run_parallel
ErrorResult(file) == [task_id |-> file.stem, status |-> "error"]

\* the terminal statuses of Controller.run
RunStatuses == {"pr_created", "error"}

NoParallel == [files |-> <<>>, started |-> FALSE]

(***************************************************************************)
(* History file (history.py: TaskHistory.record)                           *)
(***************************************************************************)
NEWLINE == "\n"
BACKSLASH == "\\"

\* the processes that hold a TaskHistory on the same repository
Recorders == {1, 2}

\* the results handed to record: a task id, a status, and an error text
\* that is missing, plain, or holds a line break
RecordResults == [task_id : {<<"t">>}, status : {<<"e">>},
                  error : {<<>>, <<"x">>, <<"x", NEWLINE, "y">>}]

\* json.dumps of a string value: a line break becomes the two characters \n
RECURSIVE Escape(_)
Escape(str) ==
    IF str = <<>> THEN <<>>
    ELSE (IF Head(str) = NEWLINE THEN <<BACKSLASH, "n">> ELSE <<Head(str)>>)
         \o Escape(Tail(str))

\* json.dumps(entry) + "\n"
EntryLine(res) ==
    <<"{">> \o Escape(res.task_id) \o <<",">> \o Escape(res.status) \o <<",">>
       \o Escape(res.error) \o <<"}">> \o <<NEWLINE>>

\* a write that replaces the file, as under open(..., "w")
WriteTruncating(file, data) == data

\* the write of a file opened with mode "a": the bytes go to the end of
\* the file as it is at the time of the write
WriteAppending(file, data) == file \o data

NoRecorder == [file |-> <<>>, started |-> FALSE]

(***************************************************************************)
(* History readers (history.py: get_recent, get_all, get_failures)         *)
(***************************************************************************)
\* the numbers of entries a caller asks for
ReadCounts == {0, 1, 2}

\* what one line of history.jsonl can hold after read_text().strip()
\* .splitlines(): an entry with its status, or text json.loads rejects
\* (a torn or blank line)
LineStatuses == {"pr_created", "committed", "error"}
MALFORMED == "malformed"

\* the line appended as line number at: ok tells whether json.loads accepts it
HistoryLine(kind, at) ==
    [ok |-> kind # MALFORMED, status |-> kind, at |-> at]

\* lst[-n:]: the last n elements; the whole list when n = 0, because -0 is 0,
\* and when the list has no more than n elements
LastSlice(lst, n) ==
    IF n = 0 \/ n >= Len(lst) THEN lst
    ELSE SubSeq(lst, Len(lst) - n + 1, Len(lst))

\* lst[:n]: the first n elements
FirstSlice(lst, n) ==
    IF n >= Len(lst) THEN lst ELSE SubSeq(lst, 1, n)

\* the loop over the lines: json.loads of each, JSONDecodeError skipped
Decoded(lines) == SelectSeq(lines, LAMBDA l : l.ok)

\* TaskHistory.get_recent
GetRecent(lines, n) == Decoded(LastSlice(lines, n))

\* TaskHistory.get_all
GetAll(lines) == Decoded(lines)

\* the filter of get_failures
IsFailure(e) == e.status \notin {"pr_created", "committed"}

\* TaskHistory.get_failures
GetFailures(lines, n) ==
    FirstSlice(SelectSeq(GetRecent(lines, n * 2), IsFailure), n)

\* TaskHistory.build_failure_context: the entries the returned text describes
BuildFailureContext(lines, max_entries) == GetFailures(lines, max_entries)

NoReader == [lines |-> <<>>, started |-> FALSE]

(***************************************************************************)
(* Workspace (workspace/__init__.py): the object, taken alone              *)
(***************************************************************************)
\* Workspace.__init__: _created is False; nothing is known of the directory
NewWorkspace(exists) ==
    [created |-> FALSE, exists |-> exists, cleaned |-> FALSE, log |-> <<>>]

\* Workspace.create: an existing directory is adopted; otherwise git
\* worktree add makes it, or fails with WorkspaceError before _created is set
WsCreate(w, git_ok) ==
    IF w.exists THEN [w EXCEPT !.created = TRUE]
    ELSE IF git_ok THEN [w EXCEPT !.created = TRUE, !.exists = TRUE]
    ELSE w

\* Workspace.commit and Workspace.push: git runs inside the worktree and
\* touches neither _created nor the directory itself
WsCommit(w) == w

WsPush(w) == w

\* Workspace.cleanup: nothing without _created; otherwise the worktree is
\* removed and pruned, and _created keeps its value
WsCleanup(w) ==
    IF ~w.created THEN w
    ELSE [w EXCEPT !.exists = FALSE, !.cleaned = TRUE]

NoWs == [log |-> <<>>, started |-> FALSE]

(***************************************************************************)
(* The Task object and the Prelude constraints (controller.py)             *)
(***************************************************************************)
ConstraintValues == {"a", "b", "c"}

\* the lists of constraints a task file or .context/constraints.json holds
ConstraintLists ==
    UNION { [1..n -> ConstraintValues] : n \in 0..MaxConstraints }

\* Task.__init__
NewTask(constraints) ==
    [task_id |-> <<"t">>, objective |-> "objective", constraints |-> constraints,
     acceptance_criteria |-> <<"Tests pass", "Clean diff">>, risk_level |-> "low",
     source |-> "local"]

\* list(set(lst)): the distinct elements in an order the hash seed decides
ListOfSet(lst) ==
    LET elems == { lst[i] : i \in 1..Len(lst) }
    IN { q \in [1..Cardinality(elems) -> elems] :
           { q[i] : i \in 1..Cardinality(elems) } = elems }

\* lines 342-353 of run: with Prelude available and a non-empty prefix, the
\* constraints Prelude returns are merged into task.constraints; the set
\* of the lists the assignment can leave there
MergePrelude(t, available, prefix, prelude_constraints) ==
    IF available /\ prefix /\ prelude_constraints # <<>>
    THEN { [t EXCEPT !.constraints = q] :
             q \in ListOfSet(t.constraints \o prelude_constraints) }
    ELSE {t}

NoGiven == [stage |-> "none"]

(***************************************************************************)
(* State of the controller and of one run                                  *)
(***************************************************************************)
VARIABLES
    config,      \* Controller.__init__ arguments and the loaded configuration
    pc,          \* position of Controller.run
    task,        \* self._task: the task id, or NoTask
    workspace,   \* self._workspace: [task_id, created], or NoWorkspace
    result,      \* the result dict of the current run
    plan,        \* the plan returned by _run_planner, or NoPlan
    attempt,     \* loop variable of _run_fix_loop
    pending,     \* changes, tests and doc updates of the agent result in hand
                 \* that the applicator loops have not reached yet
    event_log,   \* self._event_log
    history,     \* lines of .glitchlab/logs/history.jsonl
    worktrees,   \* task ids whose worktree directory exists
    writes,      \* resolved paths written or removed for an agent in this run
    calls,       \* stages, prompts and workspace operations invoked in this run
    budget,      \* the router's BudgetState: running counters and ceilings
    parsed,      \* the last parse_response call: [role, content, result], or NoParse
    executor,    \* a ToolExecutor taken alone: its _execution_log, the commands
                 \* it handed to subprocess.run, and whether the last execute raised
    enforcer,    \* a BoundaryEnforcer taken alone: its protected paths and its last check
    applier,     \* apply_changes taken alone: the file in the working directory, the applied list and the change applied last
    par,         \* run_parallel taken alone: the task files, the worker processes, the worktrees and the results
    recorder,    \* TaskHistory.record taken alone: the bytes of history.jsonl and the processes appending to it
    reader,      \* the readers of TaskHistory taken alone: the lines of history.jsonl and the last read
    ws,          \* a Workspace taken alone: its _created flag, whether its worktree directory exists, and the calls made on it
    given,       \* the Task object handed to Controller.run taken alone: its fields at the call and now
    runs         \* the calls of run on this controller: their number, and the length of self._event_log when the current one began

vars == <<runs, given, ws, reader, recorder, par, applier, enforcer, executor, parsed, budget, config, pc, task, workspace, result, plan, attempt, pending, event_log,
          history, worktrees, writes, calls>>

NoTask == <<>>
NoRuns == [count |-> 0, first_event |-> 0]
NoParse == [role |-> "none"]
NoWorkspace == [task_id |-> NoTask, created |-> FALSE, present |-> FALSE]
NoPlan == [parse_error |-> FALSE, files_likely_affected |-> <<>>, steps |-> <<>>,
           present |-> FALSE]
NoPending == [changes |-> 0, tests |-> 0, docs |-> 0]
NoResult == [task_id |-> NoTask, status |-> "none", events |-> <<>>,
             pr_url |-> "none", branch |-> <<>>, error |-> "none",
             budget |-> "none"]

\* The configurations a controller is built with.  A flag that the code
\* never reads under the other settings is given one value there: the pause
\* flags are read only through _confirm, which answers at once under
\* auto_approve, and max_fix_attempts is read only when a test command is set.
Configs ==
    { c \in [allow_core : BOOLEAN, auto_approve : BOOLEAN,
             test_command : {NoCommand} \cup TestCommands,
             max_fix_attempts : 0..MaxFixAttempts,
             pause_after_plan : BOOLEAN, pause_before_pr : BOOLEAN] :
        /\ c.auto_approve => (c.pause_after_plan /\ c.pause_before_pr)
        /\ c.test_command = NoCommand => c.max_fix_attempts = MaxFixAttempts }

\* BudgetState of a new router: counters at zero under the given ceilings;
\* last is the outcome of the latest call
NewBudget(max_tokens, max_cost) ==
    [total_tokens |-> 0, estimated_cost |-> 0, call_count |-> 0,
     max_tokens |-> max_tokens, max_cost |-> max_cost, last |-> "none"]

\* Controller.__init__
Init ==
    /\ config \in Configs
    /\ budget = NewBudget(4, 3)
    /\ parsed = NoParse
    /\ executor = NewExecutor
    /\ runs = NoRuns
    /\ given = NoGiven
    /\ ws = NoWs
    /\ reader = NoReader
    /\ recorder = NoRecorder
    /\ par = NoParallel
    /\ applier = NewApplier
    /\ enforcer = NoCheck
    /\ pc = "idle"
    /\ task = NoTask
    /\ workspace = NoWorkspace
    /\ result = NoResult
    /\ plan = NoPlan
    /\ attempt = 0
    /\ pending = NoPending
    /\ event_log = <<>>
    /\ history = <<>>
    /\ worktrees = {}
    /\ writes = {}
    /\ calls = <<>>

\* Controller._log_event
LogEvent(log, event_type, data) ==
    Append(log, [type |-> event_type, task_id |-> task, data |-> data])

\* a _confirm that asks the operator whatever auto_approve says
PromptsAlways == TRUE

\* Controller._confirm answers without prompting under auto_approve
Prompts == ~config.auto_approve

\* the exception classes the handlers of run tell apart
Exceptions == {"budget", "interrupt", "error"}

ExceptStatus(exc) ==
    CASE exc = "budget" -> "budget_exceeded"
      [] exc = "interrupt" -> "interrupted"
      [] OTHER -> "error"

\* the except clauses of run (lines 471-481), entered from the try body
Caught(res, exc) ==
    [res EXCEPT !.status = ExceptStatus(exc),
                !.error = IF exc = "error" THEN "message" ELSE @]

(***************************************************************************)
(* Values the agents and the environment can produce                       *)
(***************************************************************************)
SeqUpTo(S, n) == UNION { [1..k -> S] : k \in 0..n }

\* a validated ExecutionPlan (every step has at least one file), or the
\* planner's fallback flagged parse_error
PlanStepValues == [files : [1..1 -> PlanFileValues]]

PlanValues ==
    [parse_error : {FALSE}, files_likely_affected : SeqUpTo(PlanFileValues, MaxPlanFiles),
     steps : SeqUpTo(PlanStepValues, MaxPlanSteps), present : {TRUE}]
    \cup
    {[parse_error |-> TRUE, files_likely_affected |-> <<>>, steps |-> <<>>,
      present |-> TRUE]}

Verdicts == {"pass", "block"}
Bumps == {"minor"}

\* the archivist's result: whether an ADR is written, and doc_updates
DocValues == [file : AgentFiles, action : {"create", "append", "update"},
              content : BOOLEAN, exists : BOOLEAN]

\* Controller._write_adr writes <worktree>/docs/adr/NNN-title.md
AdrFile == <<"a", "/", "1">>

\* Controller._write_doc_update
WriteDocUpdate(working_dir, doc, st) ==
    LET t == Target(working_dir, doc.file)
    IN IF ~doc.content THEN st
       ELSE IF doc.action = "create" THEN WriteFile(st, t, <<"DOC CREATE", doc.file>>)
       ELSE IF doc.action = "append" THEN WriteFile(st, t, <<"DOC APPEND", doc.file>>)
       ELSE IF doc.action = "update" /\ doc.exists
            THEN WriteFile(st, t, <<"DOC UPDATE", doc.file>>)
       ELSE st

(***************************************************************************)
(* Controller.run                                                          *)
(***************************************************************************)
Disk == [writes |-> writes, applied |-> <<>>]

\* an exception that leaves run without passing through the cleanup
RaiseSkippingCleanup(exc) ==
    /\ result' = Caught(result, exc)
    /\ pc' = "record"

\* an exception leaves the try body through the except clauses
Raise(exc) ==
    /\ result' = Caught(result, exc)
    /\ pc' = "finally"

\* lines 311-316: run(task) starts
StartRun(t) ==
    /\ pc = "idle"
    /\ task' = t
    /\ result' = [NoResult EXCEPT !.task_id = t, !.status = "pending"]
    /\ pc' = "create"
    /\ calls' = <<>>
    /\ writes' = {}
    /\ plan' = NoPlan
    /\ attempt' = 0
    /\ pending' = NoPending
    /\ runs' = [count |-> runs.count + 1, first_event |-> Len(event_log)]
    /\ UNCHANGED <<given, ws, reader, recorder, par, applier, enforcer, executor, parsed, budget, config, workspace, event_log, history, worktrees>>

\* lines 329-334 with Workspace.create
WorkspaceCreate ==
    /\ pc = "create"
    /\ calls' = Append(calls, "create")
    /\ \/ /\ workspace' = [task_id |-> task, created |-> TRUE, present |-> TRUE]
          /\ worktrees' = worktrees \cup {task}
          /\ event_log' = LogEvent(event_log, "workspace_created", EmptyDict)
          /\ pc' = "index"
          /\ UNCHANGED result
       \/ /\ task \notin worktrees
          /\ \E exc \in {"error", "interrupt"} : Raise(exc)
          /\ workspace' = [task_id |-> task, created |-> FALSE, present |-> TRUE]
          /\ UNCHANGED <<worktrees, event_log>>
    /\ UNCHANGED <<runs, given, ws, reader, recorder, par, applier, enforcer, executor, parsed, budget, config, task, plan, attempt, pending, history, writes>>

\* lines 342-378: Prelude context, repository index, failure context
Index ==
    /\ pc = "index"
    /\ \/ /\ event_log' = LogEvent(event_log, "repo_indexed", EmptyDict)
          /\ pc' = "plan"
          /\ UNCHANGED result
       \/ /\ \E exc \in {"error", "interrupt"} : Raise(exc)
          /\ UNCHANGED event_log
    /\ UNCHANGED <<runs, given, ws, reader, recorder, par, applier, enforcer, executor, parsed, budget, config, task, workspace, plan, attempt, pending, history,
                   worktrees, writes, calls>>

\* a controller that does not look at the plan's parse_error flag
AfterPlannerIgnoringFlag(p, log, c) ==
    LET chk == CheckPlan(p, config.allow_core)
    IN /\ plan' = PlanAfterCheck(p)
       /\ calls' = Append(c, "check_plan")
       /\ IF chk.raised
          THEN /\ result' = [result EXCEPT !.status = "boundary_violation"]
               /\ event_log' = log
               /\ pc' = "finally"
          ELSE /\ event_log' =
                     IF Len(chk.violations) > 0
                     THEN LogEvent(log, "core_override", EmptyDict)
                     ELSE log
               /\ pc' = "implement"
               /\ UNCHANGED result

\* lines 382-395: the parse_error gate and the boundary check; c is the
\* list of calls made up to here
AfterPlanner(p, log, c) ==
    IF p.parse_error
    THEN /\ plan' = p
         /\ calls' = c
         /\ result' = [result EXCEPT !.status = "plan_failed"]
         /\ event_log' = log
         /\ pc' = "finally"
    ELSE LET chk == CheckPlan(p, config.allow_core)
         IN /\ plan' = PlanAfterCheck(p)
            /\ calls' = Append(c, "check_plan")
            /\ IF chk.raised
               THEN /\ result' = [result EXCEPT !.status = "boundary_violation"]
                    /\ event_log' = log
                    /\ pc' = "finally"
               ELSE /\ event_log' =
                          IF Len(chk.violations) > 0
                          THEN LogEvent(log, "core_override", EmptyDict)
                          ELSE log
                    /\ pc' = "implement"
                    /\ UNCHANGED result

\* _run_planner up to the human gate (lines 498-534)
Planner ==
    /\ pc = "plan"
    /\ \/ /\ calls' = Append(calls, "planner")
          /\ \E exc \in Exceptions : Raise(exc)
          /\ UNCHANGED <<plan, event_log>>
       \/ \E p \in PlanValues :
            LET log == LogEvent(event_log, "plan_created", [steps |-> Len(p.steps)])
            IN IF config.pause_after_plan /\ ~config.auto_approve
               THEN /\ calls' = Append(calls, "planner")
                    /\ plan' = p
                    /\ event_log' = log
                    /\ pc' = "plan_gate"
                    /\ UNCHANGED result
               ELSE AfterPlanner(p, log, Append(calls, "planner"))
    /\ UNCHANGED <<runs, given, ws, reader, recorder, par, applier, enforcer, executor, parsed, budget, config, task, workspace, attempt, pending, history, worktrees, writes>>

\* the human gate of _run_planner (lines 537-541)
PlanGate ==
    /\ pc = "plan_gate"
    /\ \/ AfterPlanner(plan, event_log, calls \o <<"confirm_plan", "yes">>)
       \/ AfterPlanner([plan EXCEPT !.parse_error = TRUE], event_log,
                       calls \o <<"confirm_plan", "no">>)
       \/ /\ calls' = calls \o <<"confirm_plan", "interrupt">>
          /\ Raise("interrupt")
          /\ UNCHANGED <<plan, event_log>>
    /\ UNCHANGED <<runs, given, ws, reader, recorder, par, applier, enforcer, executor, parsed, budget, config, task, workspace, attempt, pending, history, worktrees, writes>>

\* a loop that runs one attempt more
InRangeInclusive(a) == a <= config.max_fix_attempts + 1

\* range(1, max_attempts + 1) still has the value attempt
InRange(a) == a <= config.max_fix_attempts

\* a loop without the break after the last attempt
LastAttemptNever(a) == FALSE

\* line 603: no debugger after the last attempt
LastAttempt(a) == a >= config.max_fix_attempts

\* a failed loop that leaves the status as it was
FixLoopFailedKeepingStatus ==
    /\ UNCHANGED result
    /\ pc' = IF Prompts THEN "tests_confirm" ELSE "security"

\* _run_fix_loop returned False (lines 412-416): status tests_failed, then
\* _confirm("Continue to PR anyway?")
FixLoopFailed ==
    /\ result' = [result EXCEPT !.status = "tests_failed"]
    /\ pc' = IF Prompts THEN "tests_confirm" ELSE "security"

\* a controller that never runs the fix loop
EnterFixLoopSkipped ==
    /\ pc' = "security"
    /\ UNCHANGED <<attempt, result, calls>>

\* line 410 and the head of the for loop of _run_fix_loop
EnterFixLoop ==
    IF config.test_command = NoCommand
    THEN /\ pc' = "security"
         /\ UNCHANGED <<attempt, result, calls>>
    ELSE /\ calls' = Append(calls, "fix_loop")
         /\ IF InRange(1)
            THEN /\ pc' = "test"
                 /\ attempt' = 1
                 /\ UNCHANGED result
            ELSE /\ FixLoopFailed
                 /\ UNCHANGED attempt

\* _run_implementer and the parse_error gate (lines 398-401); afterwards the
\* plan is a dead local as far as the controller's own state goes
Implementer ==
    /\ pc = "implement"
    /\ \/ /\ calls' = Append(calls, "implementer")
          /\ \E exc \in Exceptions : Raise(exc)
          /\ UNCHANGED <<event_log, pending, plan>>
       \/ \E parse_error \in BOOLEAN, nc \in 0..MaxChanges, nt \in 0..MaxChanges :
            /\ parse_error => (nc = 0 /\ nt = 0)
            /\ event_log' = LogEvent(event_log, "implementation_created", EmptyDict)
            /\ plan' = NoPlan
            /\ IF parse_error
               THEN /\ calls' = calls \o <<"implementer", "parse_error">>
                    /\ result' = [result EXCEPT !.status = "implementation_failed"]
                    /\ pc' = "finally"
                    /\ UNCHANGED pending
               ELSE /\ calls' = Append(calls, "implementer")
                    /\ pending' = [pending EXCEPT !.changes = nc, !.tests = nt]
                    /\ pc' = "apply"
                    /\ UNCHANGED result
    /\ UNCHANGED <<runs, given, ws, reader, recorder, par, applier, enforcer, executor, parsed, budget, config, task, workspace, attempt, history, worktrees, writes>>

\* apply_changes(ws_path, impl["changes"]) (line 404), one change at a time
ApplyImplChange ==
    /\ pc = "apply"
    /\ pending.changes > 0
    /\ \E ch \in ChangeValues :
         writes' = ApplyChange(WorktreePath(task), ch, Disk).writes
    /\ pending' = [pending EXCEPT !.changes = @ - 1]
    /\ UNCHANGED <<runs, given, ws, reader, recorder, par, applier, enforcer, executor, parsed, budget, config, pc, task, workspace, result, plan, attempt, event_log,
                   history, worktrees, calls>>

\* apply_tests(ws_path, impl["tests_added"]) (line 405), one test at a time
ApplyImplTest ==
    /\ pc = "apply"
    /\ pending.changes = 0
    /\ pending.tests > 0
    /\ \E f \in AgentFiles :
         writes' = ApplyTest(WorktreePath(task), f, Disk).writes
    /\ pending' = [pending EXCEPT !.tests = @ - 1]
    /\ UNCHANGED <<runs, given, ws, reader, recorder, par, applier, enforcer, executor, parsed, budget, config, pc, task, workspace, result, plan, attempt, event_log,
                   history, worktrees, calls>>

\* everything is applied: on to the fix loop or to the security review
ApplyImplDone ==
    /\ pc = "apply"
    /\ pending.changes = 0
    /\ pending.tests = 0
    /\ EnterFixLoop
    /\ UNCHANGED <<runs, given, ws, reader, recorder, par, applier, enforcer, executor, parsed, budget, config, task, workspace, plan, pending, event_log, history,
                   worktrees, writes>>

\* tools.execute(self.test_command) and lines 588-604
TestRun ==
    /\ pc = "test"
    /\ IF ToolViolation(config.test_command)
       THEN /\ calls' = Append(calls, "test_violation")
            /\ FixLoopFailed
            /\ UNCHANGED event_log
       ELSE /\ calls' = Append(calls, "test")
            /\ \/ /\ event_log' = LogEvent(event_log, "tests_passed",
                                           [attempt |-> attempt])
                  /\ pc' = "security"
                  /\ UNCHANGED result
               \/ /\ event_log' = LogEvent(event_log, "tests_failed",
                                           [attempt |-> attempt])
                  /\ IF LastAttempt(attempt)
                     THEN FixLoopFailed
                     ELSE /\ pc' = "debug"
                          /\ UNCHANGED result
               \/ /\ \E exc \in {"error", "interrupt"} : Raise(exc)
                  /\ UNCHANGED event_log
    /\ UNCHANGED <<runs, given, ws, reader, recorder, par, applier, enforcer, executor, parsed, budget, config, task, workspace, plan, attempt, pending, history,
                   worktrees, writes>>

\* the debugger call and the should_retry gate (lines 606-633): the result
\* carries nc fix changes
Debugger ==
    /\ pc = "debug"
    /\ calls' = Append(calls, "debugger")
    /\ \/ /\ \E exc \in Exceptions : Raise(exc)
          /\ UNCHANGED pending
       \/ \E should_retry \in BOOLEAN, nc \in 0..MaxChanges :
            /\ pending' = [pending EXCEPT !.changes = nc]
            /\ pc' = IF ~should_retry THEN "no_retry" ELSE "apply_fix"
            /\ UNCHANGED result
    /\ UNCHANGED <<runs, given, ws, reader, recorder, par, applier, enforcer, executor, parsed, budget, config, task, workspace, plan, attempt, event_log, history,
                   worktrees, writes>>

\* the break on should_retry = false (lines 631-633) and return False: the
\* debugger result goes out of scope with its fix changes unapplied
FixLoopBreak ==
    /\ pc = "no_retry"
    /\ pending' = [pending EXCEPT !.changes = 0]
    /\ FixLoopFailed
    /\ UNCHANGED <<runs, given, ws, reader, recorder, par, applier, enforcer, executor, parsed, budget, config, task, workspace, plan, attempt, event_log, history,
                   worktrees, writes, calls>>

\* apply_changes(ws_path, fix_changes) (lines 636-640), one change at a time
ApplyFixChange ==
    /\ pc = "apply_fix"
    /\ pending.changes > 0
    /\ \E ch \in ChangeValues :
         writes' = ApplyChange(WorktreePath(task), ch, Disk).writes
    /\ pending' = [pending EXCEPT !.changes = @ - 1]
    /\ UNCHANGED <<runs, given, ws, reader, recorder, par, applier, enforcer, executor, parsed, budget, config, pc, task, workspace, result, plan, attempt, event_log,
                   history, worktrees, calls>>

\* the for loop of _run_fix_loop moves to the next attempt, or is exhausted
NextAttempt ==
    /\ pc = "apply_fix"
    /\ pending.changes = 0
    /\ attempt' = attempt + 1
    /\ IF InRange(attempt + 1)
       THEN /\ pc' = "test"
            /\ UNCHANGED result
       ELSE FixLoopFailed
    /\ UNCHANGED <<runs, given, ws, reader, recorder, par, applier, enforcer, executor, parsed, budget, config, task, workspace, plan, pending, event_log, history,
                   worktrees, writes, calls>>

\* a prompt whose decline does not return
TestsConfirmIgnored ==
    /\ pc = "tests_confirm"
    /\ \/ /\ calls' = calls \o <<"confirm_tests", "yes">>
          /\ pc' = "security"
          /\ UNCHANGED result
       \/ /\ calls' = calls \o <<"confirm_tests", "no">>
          /\ pc' = "security"
          /\ UNCHANGED result
       \/ /\ calls' = calls \o <<"confirm_tests", "interrupt">>
          /\ Raise("interrupt")
    /\ UNCHANGED <<runs, given, ws, reader, recorder, par, applier, enforcer, executor, parsed, budget, config, task, workspace, plan, attempt, pending, event_log, history,
                   worktrees, writes>>

\* the prompt "Continue to PR anyway?" (line 415)
TestsConfirm ==
    /\ pc = "tests_confirm"
    /\ \/ /\ calls' = calls \o <<"confirm_tests", "yes">>
          /\ pc' = "security"
          /\ UNCHANGED result
       \/ /\ calls' = calls \o <<"confirm_tests", "no">>
          /\ pc' = "finally"
          /\ UNCHANGED result
       \/ /\ calls' = calls \o <<"confirm_tests", "interrupt">>
          /\ Raise("interrupt")
    /\ UNCHANGED <<runs, given, ws, reader, recorder, par, applier, enforcer, executor, parsed, budget, config, task, workspace, plan, attempt, pending, event_log, history,
                   worktrees, writes>>

\* _run_security logs the verdict of the result (line 662); run asks for an
\* override only when the verdict is "block" (lines 419-425)
SecurityReturns(v) ==
    /\ event_log' = LogEvent(event_log, "security_review", [verdict |-> v])
    /\ pc' = IF v = "block" /\ Prompts THEN "sec_confirm" ELSE "release"
    /\ UNCHANGED result

\* _run_security and the block gate (lines 419-425)
Security ==
    /\ pc = "security"
    /\ calls' = Append(calls, "security")
    /\ \/ /\ \E exc \in Exceptions : Raise(exc)
          /\ UNCHANGED event_log
       \/ \E v \in Verdicts : SecurityReturns(v)
    /\ UNCHANGED <<runs, given, ws, reader, recorder, par, applier, enforcer, executor, parsed, budget, config, task, workspace, plan, attempt, pending, history,
                   worktrees, writes>>

\* a security gate that sets the status and goes on
SecurityConfirmNoReturn ==
    /\ pc = "sec_confirm"
    /\ \/ /\ calls' = calls \o <<"confirm_security", "yes">>
          /\ pc' = "release"
          /\ UNCHANGED result
       \/ /\ calls' = calls \o <<"confirm_security", "no">>
          /\ result' = [result EXCEPT !.status = "security_blocked"]
          /\ pc' = "release"
       \/ /\ calls' = calls \o <<"confirm_security", "interrupt">>
          /\ Raise("interrupt")
    /\ UNCHANGED <<runs, given, ws, reader, recorder, par, applier, enforcer, executor, parsed, budget, config, task, workspace, plan, attempt, pending, event_log, history,
                   worktrees, writes>>

\* the prompt "Override security block?" (line 423)
SecurityConfirm ==
    /\ pc = "sec_confirm"
    /\ \/ /\ calls' = calls \o <<"confirm_security", "yes">>
          /\ pc' = "release"
          /\ UNCHANGED result
       \/ /\ calls' = calls \o <<"confirm_security", "no">>
          /\ result' = [result EXCEPT !.status = "security_blocked"]
          /\ pc' = "finally"
       \/ /\ calls' = calls \o <<"confirm_security", "interrupt">>
          /\ Raise("interrupt")
    /\ UNCHANGED <<runs, given, ws, reader, recorder, par, applier, enforcer, executor, parsed, budget, config, task, workspace, plan, attempt, pending, event_log, history,
                   worktrees, writes>>

\* _run_release (line 428)
Release ==
    /\ pc = "release"
    /\ calls' = Append(calls, "release")
    /\ \/ /\ \E exc \in Exceptions : Raise(exc)
          /\ UNCHANGED event_log
       \/ \E b \in Bumps :
            /\ event_log' = LogEvent(event_log, "release_assessment", [bump |-> b])
            /\ pc' = "archivist"
            /\ UNCHANGED result
    /\ UNCHANGED <<runs, given, ws, reader, recorder, par, applier, enforcer, executor, parsed, budget, config, task, workspace, plan, attempt, pending, history,
                   worktrees, writes>>

\* _run_archivist and _write_adr (lines 431-435)
Archivist ==
    /\ pc = "archivist"
    /\ calls' = Append(calls, "archivist")
    /\ \/ /\ \E exc \in Exceptions : Raise(exc)
          /\ UNCHANGED <<event_log, writes, pending>>
       \/ \E write_adr \in BOOLEAN, nd \in 0..MaxChanges :
            /\ event_log' = LogEvent(event_log, "archivist_completed", EmptyDict)
            /\ writes' = IF write_adr
                         THEN WriteFile(Disk, Target(WorktreePath(task), AdrFile),
                                        <<"ADR", AdrFile>>).writes
                         ELSE writes
            /\ pending' = [pending EXCEPT !.docs = nd]
            /\ pc' = "write_docs"
            /\ UNCHANGED result
    /\ UNCHANGED <<runs, given, ws, reader, recorder, par, applier, enforcer, executor, parsed, budget, config, task, workspace, plan, attempt, history, worktrees>>

\* the loop over nova_result["doc_updates"] (lines 436-439), one at a time
WriteDoc ==
    /\ pc = "write_docs"
    /\ pending.docs > 0
    /\ \E doc \in DocValues :
         writes' = WriteDocUpdate(WorktreePath(task), doc, Disk).writes
    /\ pending' = [pending EXCEPT !.docs = @ - 1]
    /\ UNCHANGED <<runs, given, ws, reader, recorder, par, applier, enforcer, executor, parsed, budget, config, pc, task, workspace, result, plan, attempt, event_log,
                   history, worktrees, calls>>

WriteDocsDone ==
    /\ pc = "write_docs"
    /\ pending.docs = 0
    /\ pc' = "commit"
    /\ UNCHANGED <<runs, given, ws, reader, recorder, par, applier, enforcer, executor, parsed, budget, config, task, workspace, result, plan, attempt, pending,
                   event_log, history, worktrees, writes, calls>>

\* Workspace.commit stages everything and commits when the porcelain status
\* is not empty: that takes a write inside the worktree or a test command
\* that left files behind
CanCommit ==
    \/ \E t \in writes :
          LET d == ResolvePath(WorktreePath(task))
          IN Len(d) < Len(t) /\ SubSeq(t, 1, Len(d)) = d
    \/ \E i \in 1..Len(calls) : calls[i] = "test"

\* the calls of the commit step: "none" marks a commit that returned None
CommitCalls(made) == IF made THEN <<"commit">> ELSE <<"commit", "none">>

\* a commit step that goes on to the push without the pause
CommitWithoutPause ==
    /\ pc = "commit"
    /\ \/ /\ calls' = Append(calls, "commit")
          /\ \E exc \in {"error", "interrupt"} : Raise(exc)
       \/ /\ \E made \in BOOLEAN :
               /\ made => CanCommit
               /\ calls' = calls \o CommitCalls(made)
          /\ pc' = "push"
          /\ UNCHANGED result
    /\ UNCHANGED <<runs, given, ws, reader, recorder, par, applier, enforcer, executor, parsed, budget, config, task, workspace, plan, attempt, pending, event_log,
                   history, worktrees, writes>>

\* Workspace.commit and the pause before the PR (lines 442-450)
Commit ==
    /\ pc = "commit"
    /\ \/ /\ calls' = Append(calls, "commit")
          /\ \E exc \in {"error", "interrupt"} : Raise(exc)
       \/ /\ \E made \in BOOLEAN :
               /\ made => CanCommit
               /\ calls' = calls \o CommitCalls(made)
          /\ pc' = IF config.pause_before_pr /\ Prompts THEN "pr_confirm" ELSE "push"
          /\ UNCHANGED result
    /\ UNCHANGED <<runs, given, ws, reader, recorder, par, applier, enforcer, executor, parsed, budget, config, task, workspace, plan, attempt, pending, event_log, history,
                   worktrees, writes>>

\* the prompt "Create PR?" (line 448)
PrConfirm ==
    /\ pc = "pr_confirm"
    /\ \/ /\ calls' = calls \o <<"confirm_pr", "yes">>
          /\ pc' = "push"
          /\ UNCHANGED result
       \/ /\ calls' = calls \o <<"confirm_pr", "no">>
          /\ result' = [result EXCEPT !.status = "pr_cancelled"]
          /\ pc' = "finally"
       \/ /\ calls' = calls \o <<"confirm_pr", "interrupt">>
          /\ Raise("interrupt")
    /\ UNCHANGED <<runs, given, ws, reader, recorder, par, applier, enforcer, executor, parsed, budget, config, task, workspace, plan, attempt, pending, event_log, history,
                   worktrees, writes>>

\* lines 465-469: the end of the try body
Completed(res) ==
    /\ result' = [res EXCEPT !.events = event_log, !.budget = "summary"]
    /\ pc' = "finally"

\* a failure handler that forgets the branch
PrFailedWithoutBranch == Completed([result EXCEPT !.status = "committed"])

\* lines 459-463: push or PR creation failed
PrFailed == Completed([result EXCEPT !.status = "committed",
                                     !.branch = BranchName(task)])

\* Workspace.push (line 454)
Push ==
    /\ pc = "push"
    /\ \/ /\ calls' = Append(calls, "push")
          /\ pc' = "create_pr"
          /\ UNCHANGED result
       \/ /\ calls' = calls \o <<"push", "failed">>
          /\ PrFailed
       \/ /\ calls' = Append(calls, "push")
          /\ Raise("interrupt")
    /\ UNCHANGED <<runs, given, ws, reader, recorder, par, applier, enforcer, executor, parsed, budget, config, task, workspace, plan, attempt, pending, event_log, history,
                   worktrees, writes>>

\* _create_pr (lines 455-458)
CreatePr ==
    /\ pc = "create_pr"
    /\ \/ /\ calls' = Append(calls, "create_pr")
          /\ Completed([result EXCEPT !.status = "pr_created", !.pr_url = "url"])
       \/ /\ calls' = calls \o <<"create_pr", "failed">>
          /\ PrFailed
       \/ /\ calls' = Append(calls, "create_pr")
          /\ Raise("interrupt")
    /\ UNCHANGED <<runs, given, ws, reader, recorder, par, applier, enforcer, executor, parsed, budget, config, task, workspace, plan, attempt, pending, event_log, history,
                   worktrees, writes>>

\* the finally clause, first half (lines 483-487) with Workspace.cleanup:
\* an Exception of cleanup is swallowed; a KeyboardInterrupt that arrives
\* while cleanup waits for git is not an Exception and leaves run at once
Cleanup ==
    /\ pc = "finally"
    /\ IF workspace.present
       THEN \/ /\ \E raised \in BOOLEAN :
                    calls' = calls \o (IF raised /\ workspace.created
                                       THEN <<"cleanup", "cleanup_raised">>
                                       ELSE <<"cleanup">>)
               /\ worktrees' = IF workspace.created
                               THEN worktrees \ {workspace.task_id}
                               ELSE worktrees
               /\ pc' = "record"
            \/ /\ workspace.created
               /\ calls' = calls \o <<"cleanup", "cleanup_interrupted">>
               /\ \E removed \in BOOLEAN :
                    worktrees' = IF removed THEN worktrees \ {workspace.task_id}
                                 ELSE worktrees
               /\ pc' = "propagated"
       ELSE /\ pc' = "record"
            /\ UNCHANGED <<calls, worktrees>>
    /\ UNCHANGED <<runs, given, ws, reader, recorder, par, applier, enforcer, executor, parsed, budget, config, task, workspace, result, plan, attempt, pending, event_log,
                   history, writes>>

\* the finally clause, second half (line 490) with TaskHistory.record: a
\* failed write is logged and leaves the file as it was
Record ==
    /\ pc = "record"
    /\ calls' = Append(calls, "record")
    /\ \E write_ok \in BOOLEAN :
         history' = IF write_ok THEN Append(history, HistoryEntry(result))
                    ELSE history
    /\ pc' = "returned"
    /\ UNCHANGED <<runs, given, ws, reader, recorder, par, applier, enforcer, executor, parsed, budget, config, task, workspace, result, plan, attempt, pending, event_log,
                   worktrees, writes>>

Next ==
    \/ \E t \in TaskIds : StartRun(t)
    \/ WorkspaceCreate
    \/ Index
    \/ Planner
    \/ PlanGate
    \/ Implementer
    \/ ApplyImplChange
    \/ ApplyImplTest
    \/ ApplyImplDone
    \/ TestRun
    \/ Debugger
    \/ FixLoopBreak
    \/ ApplyFixChange
    \/ NextAttempt
    \/ TestsConfirm
    \/ Security
    \/ SecurityConfirm
    \/ Release
    \/ Archivist
    \/ WriteDoc
    \/ WriteDocsDone
    \/ Commit
    \/ PrConfirm
    \/ Push
    \/ CreatePr
    \/ Cleanup
    \/ Record

Spec == Init /\ [][Next]_vars

(***************************************************************************)
(* Router budget (spec section 4.1): the calls of one router, taken alone  *)
(***************************************************************************)
TokenCeilings == {2, 4}
CostCeilings == {1, 3}

\* before issuing a call: total_tokens + max_tokens > ceiling, or
\* estimated_cost > cost ceiling
BudgetGuard(b, max_tokens) ==
    \/ b.total_tokens + max_tokens > b.max_tokens
    \/ b.estimated_cost > b.max_cost

\* after success: the running counters are incremented
BudgetRecord(b, tokens_used, cost) ==
    [b EXCEPT !.total_tokens = @ + tokens_used,
              !.estimated_cost = @ + cost,
              !.call_count = @ + 1,
              !.last = "returned"]

\* call(messages, max_tokens): BudgetExceeded without a network call, or
\* the provider's answer with its tokens_used and cost
RouterCall ==
    /\ budget.call_count < MaxCalls
    /\ \E max_tokens \in 0..MaxCallTokens, tokens_used \in 0..MaxCallTokens,
          cost \in 0..MaxCallCost :
         budget' = IF BudgetGuard(budget, max_tokens)
                   THEN [budget EXCEPT !.last = "exceeded"]
                   ELSE BudgetRecord(budget, tokens_used, cost)
    /\ UNCHANGED <<runs, given, ws, reader, recorder, par, applier, enforcer, executor, parsed, config, pc, task, workspace, result, plan, attempt, pending,
                   event_log, history, worktrees, writes, calls>>

\* a controller that has not started a run, with a router under some ceilings
RouterInit ==
    /\ config = [allow_core |-> FALSE, auto_approve |-> TRUE, test_command |-> NoCommand,
                 max_fix_attempts |-> MaxFixAttempts, pause_after_plan |-> TRUE,
                 pause_before_pr |-> TRUE]
    /\ \E mt \in TokenCeilings, mc \in CostCeilings : budget = NewBudget(mt, mc)
    /\ parsed = NoParse
    /\ executor = NewExecutor
    /\ runs = NoRuns
    /\ given = NoGiven
    /\ ws = NoWs
    /\ reader = NoReader
    /\ recorder = NoRecorder
    /\ par = NoParallel
    /\ applier = NewApplier
    /\ enforcer = NoCheck
    /\ pc = "idle"
    /\ task = NoTask
    /\ workspace = NoWorkspace
    /\ result = NoResult
    /\ plan = NoPlan
    /\ attempt = 0
    /\ pending = NoPending
    /\ event_log = <<>>
    /\ history = <<>>
    /\ worktrees = {}
    /\ writes = {}
    /\ calls = <<>>

RouterNext == RouterCall

RouterSpec == RouterInit /\ [][RouterNext]_vars

(***************************************************************************)
(* Agent parse_response: the parsers of the six roles, taken alone         *)
(***************************************************************************)
Roles == {"planner", "implementer", "debugger", "security", "release", "archivist"}

\* What the parsers can tell apart in a response content, once the code
\* fences are stripped:
\*   json    what json.loads(content) gives: "error" for JSONDecodeError,
\*           else the type of the decoded value
\*   braces  what re.search(r"\{.*\}", content) gives: "none" for no match,
\*           "object" for a match that decodes, "error" for one that does not
\*   schema  whether the decoded object has the keys and values of the
\*           role's schema
JsonKinds == {"error", "object", "list", "number"}
BraceKinds == {"none", "object", "error"}
Contents == [json : JsonKinds, braces : BraceKinds, schema : BOOLEAN]

\* the role's fallback dict
FallbackResult == [kind |-> "object", parse_error |-> TRUE]

\* json.loads(content) when it does not raise
Loaded(content) == [kind |-> content.json, parse_error |-> FALSE]

\* the except branch of implementer, debugger and archivist: decode the
\* text between the first "{" and the last "}", else fall back
ExtractJson(content) ==
    IF content.braces = "object"
    THEN [kind |-> "object", parse_error |-> FALSE]
    ELSE FallbackResult

TypeError == [raised |-> TRUE, parse_error |-> FALSE]

\* result["_agent"] = ... and the return: item assignment by key needs a dict
Tagged(value) ==
    IF value.kind = "object"
    THEN [raised |-> FALSE, parse_error |-> value.parse_error]
    ELSE TypeError

\* PlannerAgent.parse_response
PlannerParse(content) ==
    IF content.json = "error" THEN Tagged(FallbackResult)
    ELSE IF content.json # "object" THEN TypeError    \* ExecutionPlan(**raw_json)
    ELSE IF ~content.schema THEN Tagged(FallbackResult)
    ELSE Tagged(Loaded(content))

\* ImplementerAgent.parse_response
ImplementerParse(content) ==
    Tagged(IF content.json = "error" THEN ExtractJson(content) ELSE Loaded(content))

\* DebuggerAgent.parse_response
DebuggerParse(content) ==
    Tagged(IF content.json = "error" THEN ExtractJson(content) ELSE Loaded(content))

\* SecurityAgent.parse_response
SecurityParse(content) ==
    Tagged(IF content.json = "error" THEN FallbackResult ELSE Loaded(content))

\* ReleaseAgent.parse_response
ReleaseParse(content) ==
    Tagged(IF content.json = "error" THEN FallbackResult ELSE Loaded(content))

\* ArchivistAgent.parse_response
ArchivistParse(content) ==
    Tagged(IF content.json = "error" THEN ExtractJson(content) ELSE Loaded(content))

ParseResponse(role, content) ==
    CASE role = "planner" -> PlannerParse(content)
      [] role = "implementer" -> ImplementerParse(content)
      [] role = "debugger" -> DebuggerParse(content)
      [] role = "security" -> SecurityParse(content)
      [] role = "release" -> ReleaseParse(content)
      [] role = "archivist" -> ArchivistParse(content)

\* an agent of some role parses some response
Parse ==
    /\ \E role \in Roles, content \in Contents :
         parsed' = [role |-> role, content |-> content,
                    result |-> ParseResponse(role, content)]
    /\ UNCHANGED <<runs, given, ws, reader, recorder, par, applier, enforcer, executor, budget, config, pc, task, workspace, result, plan, attempt, pending,
                   event_log, history, worktrees, writes, calls>>

\* a controller that has not started a run
ParseInit ==
    /\ config = [allow_core |-> FALSE, auto_approve |-> TRUE, test_command |-> NoCommand,
                 max_fix_attempts |-> MaxFixAttempts, pause_after_plan |-> TRUE,
                 pause_before_pr |-> TRUE]
    /\ budget = NewBudget(4, 3)
    /\ parsed = NoParse
    /\ executor = NewExecutor
    /\ runs = NoRuns
    /\ given = NoGiven
    /\ ws = NoWs
    /\ reader = NoReader
    /\ recorder = NoRecorder
    /\ par = NoParallel
    /\ applier = NewApplier
    /\ enforcer = NoCheck
    /\ pc = "idle"
    /\ task = NoTask
    /\ workspace = NoWorkspace
    /\ result = NoResult
    /\ plan = NoPlan
    /\ attempt = 0
    /\ pending = NoPending
    /\ event_log = <<>>
    /\ history = <<>>
    /\ worktrees = {}
    /\ writes = {}
    /\ calls = <<>>

ParseNext == Parse

ParseSpec == ParseInit /\ [][ParseNext]_vars

(***************************************************************************)
(* Tool sandbox: the calls of one ToolExecutor, taken alone                *)
(***************************************************************************)
\* ToolExecutor.execute: the result is logged; subprocess.run is reached
\* only past both checks, and the two refusals raise ToolViolationError
Execute ==
    /\ Len(executor.log) < MaxExecutions
    /\ \E command \in Commands, outcome \in ProcessOutcomes :
         LET r == ExecuteResult(command, outcome)
         IN executor' = [log |-> Append(executor.log, r),
                         spawned |-> IF r.allowed
                                     THEN Append(executor.spawned, command)
                                     ELSE executor.spawned,
                         raised |-> ~r.allowed]
    /\ UNCHANGED <<runs, given, ws, reader, recorder, par, applier, enforcer, parsed, budget, config, pc, task, workspace, result, plan, attempt,
                   pending, event_log, history, worktrees, writes, calls>>

\* a controller that has not started a run, and a fresh executor
ToolInit ==
    /\ config = [allow_core |-> FALSE, auto_approve |-> TRUE, test_command |-> NoCommand,
                 max_fix_attempts |-> MaxFixAttempts, pause_after_plan |-> TRUE,
                 pause_before_pr |-> TRUE]
    /\ budget = NewBudget(4, 3)
    /\ parsed = NoParse
    /\ executor = NewExecutor
    /\ runs = NoRuns
    /\ given = NoGiven
    /\ ws = NoWs
    /\ reader = NoReader
    /\ recorder = NoRecorder
    /\ par = NoParallel
    /\ applier = NewApplier
    /\ enforcer = NoCheck
    /\ pc = "idle"
    /\ task = NoTask
    /\ workspace = NoWorkspace
    /\ result = NoResult
    /\ plan = NoPlan
    /\ attempt = 0
    /\ pending = NoPending
    /\ event_log = <<>>
    /\ history = <<>>
    /\ worktrees = {}
    /\ writes = {}
    /\ calls = <<>>

ToolNext == Execute

ToolSpec == ToolInit /\ [][ToolNext]_vars

(***************************************************************************)
(* Boundary enforcer: the checks of one BoundaryEnforcer, taken alone      *)
(***************************************************************************)
\* BoundaryEnforcer.check(files, allow_core)
BoundaryCheck ==
    /\ \E files \in CheckFiles, allow_core \in BOOLEAN :
         LET r == EnforcerCheck(enforcer.protected, files, allow_core)
         IN enforcer' = [protected |-> enforcer.protected, called |-> TRUE,
                         op |-> "check",
                         files |-> files, allow_core |-> allow_core,
                         raised |-> r.raised, violations |-> r.violations]
    /\ UNCHANGED <<runs, given, ws, reader, recorder, par, applier, executor, parsed, budget, config, pc, task, workspace, result, plan,
                   attempt, pending, event_log, history, worktrees, writes, calls>>

\* BoundaryEnforcer.check_plan(plan, allow_core) on a plan the Planner
\* emitted: plan_after is the plan object as the call leaves it
BoundaryCheckPlan ==
    /\ \E p \in PlanValues, allow_core \in BOOLEAN :
         LET files == SetToSeq(Range(PlanFiles(p)))
             r == EnforcerCheck(enforcer.protected, files, allow_core)
         IN /\ ~p.parse_error
            /\ enforcer' = [protected |-> enforcer.protected, called |-> TRUE,
                            op |-> "check_plan",
                            files |-> files, allow_core |-> allow_core,
                            raised |-> r.raised, violations |-> r.violations,
                            plan_before |-> p, plan_after |-> PlanAfterCheck(p)]
    /\ UNCHANGED <<runs, given, ws, reader, recorder, par, applier, executor, parsed, budget, config, pc, task, workspace, result, plan,
                   attempt, pending, event_log, history, worktrees, writes, calls>>

\* a controller that has not started a run, and an enforcer built with some
\* protected paths
BoundaryInit ==
    /\ config = [allow_core |-> FALSE, auto_approve |-> TRUE, test_command |-> NoCommand,
                 max_fix_attempts |-> MaxFixAttempts, pause_after_plan |-> TRUE,
                 pause_before_pr |-> TRUE]
    /\ budget = NewBudget(4, 3)
    /\ parsed = NoParse
    /\ executor = NewExecutor
    /\ runs = NoRuns
    /\ given = NoGiven
    /\ ws = NoWs
    /\ reader = NoReader
    /\ recorder = NoRecorder
    /\ par = NoParallel
    /\ applier = NewApplier
    /\ \E protected \in ProtectedLists : enforcer = [NoCheck EXCEPT !.protected = protected]
    /\ pc = "idle"
    /\ task = NoTask
    /\ workspace = NoWorkspace
    /\ result = NoResult
    /\ plan = NoPlan
    /\ attempt = 0
    /\ pending = NoPending
    /\ event_log = <<>>
    /\ history = <<>>
    /\ worktrees = {}
    /\ writes = {}
    /\ calls = <<>>

BoundaryNext ==
    \/ BoundaryCheck
    \/ BoundaryCheckPlan

BoundarySpec == BoundaryInit /\ [][BoundaryNext]_vars

(***************************************************************************)
(* Change applicator: the loop of apply_changes over one file, taken alone *)
(***************************************************************************)
\* one iteration of `for change in changes`; the changes name the same file
ApplyNext ==
    /\ applier.count < MaxApplied
    /\ \E change \in FileChanges, git_runs \in BOOLEAN :
         LET r == ApplyToFile(applier.disk, change, git_runs)
         IN applier' = [disk |-> r.disk, applied |-> applier.applied \o r.applied,
                        count |-> applier.count + 1, change |-> change,
                        before |-> applier.disk, git_runs |-> git_runs,
                        entry |-> r.applied]
    /\ UNCHANGED <<runs, given, ws, reader, recorder, par, enforcer, executor, parsed, budget, config, pc, task, workspace, result,
                   plan, attempt, pending, event_log, history, worktrees, writes, calls>>

\* a controller that has not started a run, and a working directory whose
\* file holds some content or does not exist
ApplyInit ==
    /\ config = [allow_core |-> FALSE, auto_approve |-> TRUE, test_command |-> NoCommand,
                 max_fix_attempts |-> MaxFixAttempts, pause_after_plan |-> TRUE,
                 pause_before_pr |-> TRUE]
    /\ budget = NewBudget(4, 3)
    /\ parsed = NoParse
    /\ executor = NewExecutor
    /\ runs = NoRuns
    /\ given = NoGiven
    /\ ws = NoWs
    /\ reader = NoReader
    /\ recorder = NoRecorder
    /\ par = NoParallel
    /\ enforcer = NoCheck
    /\ \E content \in FileContents : applier = [NewApplier EXCEPT !.disk = content]
    /\ pc = "idle"
    /\ task = NoTask
    /\ workspace = NoWorkspace
    /\ result = NoResult
    /\ plan = NoPlan
    /\ attempt = 0
    /\ pending = NoPending
    /\ event_log = <<>>
    /\ history = <<>>
    /\ worktrees = {}
    /\ writes = {}
    /\ calls = <<>>

ApplySpec == ApplyInit /\ [][ApplyNext]_vars

(***************************************************************************)
(* Parallel runner: one call of run_parallel, taken alone                  *)
(***************************************************************************)
Workers == 1..Len(par.files)

Running == { i \in Workers : par.worker[i].pc \in {"started", "created", "worked", "cleaned"} }

ParFrame ==
    UNCHANGED <<runs, given, ws, reader, recorder, applier, enforcer, executor, parsed, budget, config, pc, task, workspace,
                result, plan, attempt, pending, event_log, history, worktrees, writes,
                calls>>

\* the pool starts the next submitted task when a worker process is free
WorkerStart(i) ==
    /\ par.worker[i].pc = "pending"
    /\ \A j \in Workers : j < i => par.worker[j].pc # "pending"
    /\ Cardinality(Running) < par.max_workers
    /\ par' = [par EXCEPT !.worker[i].pc = "started"]
    /\ ParFrame

\* _run_single_task up to the call of run: load_config, Task.from_yaml or
\* the Controller constructor raises, and the except branch returns
WorkerLoadFails(i) ==
    /\ par.worker[i].pc = "started"
    /\ par' = [par EXCEPT !.worker[i].pc = "finished",
                          !.done = Append(@, [index |-> i, result |-> ErrorResult(par.files[i])])]
    /\ ParFrame

\* Controller.run: Workspace.create makes the worktree of the task id, or
\* takes the existing one
WorkerCreate(i) ==
    /\ par.worker[i].pc = "started"
    /\ par' = [par EXCEPT !.worker[i].pc = "created",
                          !.worker[i].auto_approve = WorkerAutoApprove(par.auto_approve),
                          !.worker[i].task_id = TaskIdOf(par.files[i]),
                          !.worktrees = @ \cup {TaskIdOf(par.files[i])}]
    /\ ParFrame

\* Controller.run from the plan gate to the commit: _confirm answers by
\* itself under auto_approve and asks the operator otherwise
WorkerRun(i) ==
    /\ par.worker[i].pc = "created"
    /\ par' = [par EXCEPT !.worker[i].pc = "worked",
                          !.worker[i].prompted = ~par.worker[i].auto_approve]
    /\ ParFrame

\* the finally clause of Controller.run: Workspace.cleanup
WorkerCleanup(i) ==
    /\ par.worker[i].pc = "worked"
    /\ par' = [par EXCEPT !.worker[i].pc = "cleaned",
                          !.worktrees = @ \ {par.worker[i].task_id}]
    /\ ParFrame

\* controller.run(task) returns its result and the future completes
WorkerReturn(i) ==
    /\ par.worker[i].pc = "cleaned"
    /\ \E status \in RunStatuses :
         par' = [par EXCEPT !.worker[i].pc = "finished",
                           !.done = Append(@, [index |-> i,
                                               result |-> [task_id |-> par.worker[i].task_id,
                                                           status |-> status]])]
    /\ ParFrame

\* the as_completed loop: the next completed future is appended to results
Collect ==
    /\ par.started
    /\ Len(par.results) < Len(par.done)
    /\ par' = [par EXCEPT !.results = Append(@, par.done[Len(par.results) + 1])]
    /\ ParFrame

\* run_parallel returns the results
ParallelReturn ==
    /\ par.started
    /\ ~par.returned
    /\ Len(par.results) = Len(par.files)
    /\ par' = [par EXCEPT !.returned = TRUE]
    /\ ParFrame

\* run_parallel is called with some task files
ParallelInit ==
    /\ config = [allow_core |-> FALSE, auto_approve |-> TRUE, test_command |-> NoCommand,
                 max_fix_attempts |-> MaxFixAttempts, pause_after_plan |-> TRUE,
                 pause_before_pr |-> TRUE]
    /\ budget = NewBudget(4, 3)
    /\ parsed = NoParse
    /\ executor = NewExecutor
    /\ runs = NoRuns
    /\ given = NoGiven
    /\ ws = NoWs
    /\ reader = NoReader
    /\ recorder = NoRecorder
    /\ enforcer = NoCheck
    /\ applier = NewApplier
    /\ \E files \in TaskFileLists, auto_approve \in BOOLEAN, max_workers \in WorkerCounts :
         par = [files |-> files, started |-> TRUE, auto_approve |-> auto_approve,
                max_workers |-> max_workers,
                worker |-> [i \in 1..Len(files) |->
                              [pc |-> "pending", auto_approve |-> FALSE,
                               prompted |-> FALSE, task_id |-> NoTask]],
                worktrees |-> {}, done |-> <<>>, results |-> <<>>, returned |-> FALSE]
    /\ pc = "idle"
    /\ task = NoTask
    /\ workspace = NoWorkspace
    /\ result = NoResult
    /\ plan = NoPlan
    /\ attempt = 0
    /\ pending = NoPending
    /\ event_log = <<>>
    /\ history = <<>>
    /\ worktrees = {}
    /\ writes = {}
    /\ calls = <<>>

ParallelNext ==
    \/ \E i \in Workers : WorkerStart(i)
    \/ \E i \in Workers : WorkerLoadFails(i)
    \/ \E i \in Workers : WorkerCreate(i)
    \/ \E i \in Workers : WorkerRun(i)
    \/ \E i \in Workers : WorkerCleanup(i)
    \/ \E i \in Workers : WorkerReturn(i)
    \/ Collect
    \/ ParallelReturn

ParallelSpec == ParallelInit /\ [][ParallelNext]_vars

(***************************************************************************)
(* History file: processes recording into one history.jsonl                *)
(***************************************************************************)
RecFrame ==
    UNCHANGED <<runs, given, ws, reader, par, applier, enforcer, executor, parsed, budget, config, pc, task,
                workspace, result, plan, attempt, pending, event_log, history, worktrees,
                writes, calls>>

\* record up to f.write: the entry is built, the file is opened for
\* appending and the line is put in the buffer of the file object
RecordBuffer(p) ==
    /\ recorder.proc[p].pc = "idle"
    /\ recorder.proc[p].count < MaxRecords
    /\ \E res \in RecordResults :
         recorder' = [recorder EXCEPT !.proc[p].pc = "buffered",
                                      !.proc[p].buffer = EntryLine(res)]
    /\ RecFrame

\* leaving the with block: the buffer goes to the file in one write
RecordFlush(p) ==
    /\ recorder.proc[p].pc = "buffered"
    /\ recorder' = [recorder EXCEPT !.file = WriteAppending(@, recorder.proc[p].buffer),
                                    !.proc[p].pc = "idle",
                                    !.proc[p].buffer = <<>>,
                                    !.proc[p].count = @ + 1,
                                    !.written = @ + 1]
    /\ RecFrame

\* open or json.dumps raises: the except branch logs a warning and nothing
\* reaches the file
RecordFails(p) ==
    /\ recorder.proc[p].pc = "idle"
    /\ recorder.proc[p].count < MaxRecords
    /\ recorder' = [recorder EXCEPT !.proc[p].count = @ + 1]
    /\ RecFrame

\* a controller that has not started a run, and an empty history file
HistoryInit ==
    /\ config = [allow_core |-> FALSE, auto_approve |-> TRUE, test_command |-> NoCommand,
                 max_fix_attempts |-> MaxFixAttempts, pause_after_plan |-> TRUE,
                 pause_before_pr |-> TRUE]
    /\ budget = NewBudget(4, 3)
    /\ parsed = NoParse
    /\ executor = NewExecutor
    /\ runs = NoRuns
    /\ given = NoGiven
    /\ ws = NoWs
    /\ reader = NoReader
    /\ enforcer = NoCheck
    /\ applier = NewApplier
    /\ par = NoParallel
    /\ recorder = [file |-> <<>>, started |-> TRUE, written |-> 0,
                   proc |-> [p \in Recorders |-> [pc |-> "idle", buffer |-> <<>>, count |-> 0]]]
    /\ pc = "idle"
    /\ task = NoTask
    /\ workspace = NoWorkspace
    /\ result = NoResult
    /\ plan = NoPlan
    /\ attempt = 0
    /\ pending = NoPending
    /\ event_log = <<>>
    /\ history = <<>>
    /\ worktrees = {}
    /\ writes = {}
    /\ calls = <<>>

HistoryNext ==
    \/ \E p \in Recorders : RecordBuffer(p)
    \/ \E p \in Recorders : RecordFlush(p)
    \/ \E p \in Recorders : RecordFails(p)

HistorySpec == HistoryInit /\ [][HistoryNext]_vars

(***************************************************************************)
(* History readers: the reads of one TaskHistory over a growing file       *)
(***************************************************************************)
ReadFrame ==
    UNCHANGED <<runs, given, ws, recorder, par, applier, enforcer, executor, parsed, budget, config, pc,
                task, workspace, result, plan, attempt, pending, event_log, history,
                worktrees, writes, calls>>

\* a process appends one line to history.jsonl, complete or torn
ReaderAppend ==
    /\ Len(reader.lines) < MaxLines
    /\ \E kind \in LineStatuses \cup {MALFORMED} :
         reader' = [reader EXCEPT
                      !.lines = Append(@, HistoryLine(kind, Len(reader.lines) + 1))]
    /\ ReadFrame

ReadRecent ==
    /\ \E n \in ReadCounts :
         reader' = [reader EXCEPT !.op = "get_recent", !.n = n,
                                  !.result = GetRecent(reader.lines, n)]
    /\ ReadFrame

ReadAll ==
    /\ reader' = [reader EXCEPT !.op = "get_all", !.n = 0,
                                !.result = GetAll(reader.lines)]
    /\ ReadFrame

ReadFailures ==
    /\ \E n \in ReadCounts :
         reader' = [reader EXCEPT !.op = "get_failures", !.n = n,
                                  !.result = GetFailures(reader.lines, n)]
    /\ ReadFrame

ReadFailureContext ==
    /\ \E n \in ReadCounts :
         reader' = [reader EXCEPT !.op = "build_failure_context", !.n = n,
                                  !.result = BuildFailureContext(reader.lines, n)]
    /\ ReadFrame

\* a controller that has not started a run, and an empty history file
ReaderInit ==
    /\ config = [allow_core |-> FALSE, auto_approve |-> TRUE, test_command |-> NoCommand,
                 max_fix_attempts |-> MaxFixAttempts, pause_after_plan |-> TRUE,
                 pause_before_pr |-> TRUE]
    /\ budget = NewBudget(4, 3)
    /\ parsed = NoParse
    /\ executor = NewExecutor
    /\ runs = NoRuns
    /\ given = NoGiven
    /\ ws = NoWs
    /\ enforcer = NoCheck
    /\ applier = NewApplier
    /\ par = NoParallel
    /\ recorder = NoRecorder
    /\ reader = [lines |-> <<>>, started |-> TRUE, op |-> "none", n |-> 0,
                 result |-> <<>>]
    /\ pc = "idle"
    /\ task = NoTask
    /\ workspace = NoWorkspace
    /\ result = NoResult
    /\ plan = NoPlan
    /\ attempt = 0
    /\ pending = NoPending
    /\ event_log = <<>>
    /\ history = <<>>
    /\ worktrees = {}
    /\ writes = {}
    /\ calls = <<>>

ReaderNext ==
    \/ ReaderAppend
    \/ ReadRecent
    \/ ReadAll
    \/ ReadFailures
    \/ ReadFailureContext

ReaderSpec == ReaderInit /\ [][ReaderNext]_vars

(***************************************************************************)
(* Workspace: the calls made on one Workspace object                      *)
(***************************************************************************)
WsFrame ==
    UNCHANGED <<runs, given, reader, recorder, par, applier, enforcer, executor, parsed, budget, config,
                pc, task, workspace, result, plan, attempt, pending, event_log, history,
                worktrees, writes, calls>>

WsCallCreate ==
    /\ Len(ws.log) < MaxWsCalls
    /\ \E git_ok \in BOOLEAN :
         ws' = [WsCreate(ws, git_ok) EXCEPT !.log = Append(@, "create")]
    /\ WsFrame

WsCallCommit ==
    /\ Len(ws.log) < MaxWsCalls
    /\ ws' = [WsCommit(ws) EXCEPT !.log = Append(@, "commit")]
    /\ WsFrame

WsCallPush ==
    /\ Len(ws.log) < MaxWsCalls
    /\ ws' = [WsPush(ws) EXCEPT !.log = Append(@, "push")]
    /\ WsFrame

WsCallCleanup ==
    /\ Len(ws.log) < MaxWsCalls
    /\ ws' = [WsCleanup(ws) EXCEPT !.log = Append(@, "cleanup")]
    /\ WsFrame

\* a controller that has not started a run, and a new Workspace whose
\* worktree directory may be left over from an earlier run
WorkspaceInit ==
    /\ config = [allow_core |-> FALSE, auto_approve |-> TRUE, test_command |-> NoCommand,
                 max_fix_attempts |-> MaxFixAttempts, pause_after_plan |-> TRUE,
                 pause_before_pr |-> TRUE]
    /\ budget = NewBudget(4, 3)
    /\ parsed = NoParse
    /\ executor = NewExecutor
    /\ runs = NoRuns
    /\ given = NoGiven
    /\ enforcer = NoCheck
    /\ applier = NewApplier
    /\ par = NoParallel
    /\ recorder = NoRecorder
    /\ reader = NoReader
    /\ \E exists \in BOOLEAN : ws = NewWorkspace(exists)
    /\ pc = "idle"
    /\ task = NoTask
    /\ workspace = NoWorkspace
    /\ result = NoResult
    /\ plan = NoPlan
    /\ attempt = 0
    /\ pending = NoPending
    /\ event_log = <<>>
    /\ history = <<>>
    /\ worktrees = {}
    /\ writes = {}
    /\ calls = <<>>

WorkspaceNext ==
    \/ WsCallCreate
    \/ WsCallCommit
    \/ WsCallPush
    \/ WsCallCleanup

WorkspaceSpec == WorkspaceInit /\ [][WorkspaceNext]_vars

(***************************************************************************)
(* The Task object through one call of Controller.run                     *)
(***************************************************************************)
GivenFrame ==
    UNCHANGED <<runs, ws, reader, recorder, par, applier, enforcer, executor, parsed, budget,
                config, pc, task, workspace, result, plan, attempt, pending, event_log,
                history, worktrees, writes, calls>>

\* run up to the Prelude block: an exception before it (Workspace.create)
\* takes run to its handlers, which do not touch the task
TaskRunRaises ==
    /\ given.stage = "called"
    /\ given' = [given EXCEPT !.stage = "returned"]
    /\ GivenFrame

\* the Prelude block of run (lines 342-353)
TaskLoadPrelude ==
    /\ given.stage = "called"
    /\ \E available \in BOOLEAN, prefix \in BOOLEAN,
          prelude_constraints \in ConstraintLists :
         \E t \in MergePrelude(given.task, available, prefix, prelude_constraints) :
            given' = [given EXCEPT !.stage = "context_loaded", !.task = t]
    /\ GivenFrame

\* the rest of run (lines 355-492) reads the fields of the task and assigns
\* none of them
TaskRunReturns ==
    /\ given.stage = "context_loaded"
    /\ given' = [given EXCEPT !.stage = "returned"]
    /\ GivenFrame

\* a controller whose run is called with a new Task
TaskInit ==
    /\ config = [allow_core |-> FALSE, auto_approve |-> TRUE, test_command |-> NoCommand,
                 max_fix_attempts |-> MaxFixAttempts, pause_after_plan |-> TRUE,
                 pause_before_pr |-> TRUE]
    /\ budget = NewBudget(4, 3)
    /\ parsed = NoParse
    /\ executor = NewExecutor
    /\ runs = NoRuns
    /\ enforcer = NoCheck
    /\ applier = NewApplier
    /\ par = NoParallel
    /\ recorder = NoRecorder
    /\ reader = NoReader
    /\ ws = NoWs
    /\ \E constraints \in ConstraintLists :
         given = [stage |-> "called", before |-> NewTask(constraints),
                  task |-> NewTask(constraints)]
    /\ pc = "idle"
    /\ task = NoTask
    /\ workspace = NoWorkspace
    /\ result = NoResult
    /\ plan = NoPlan
    /\ attempt = 0
    /\ pending = NoPending
    /\ event_log = <<>>
    /\ history = <<>>
    /\ worktrees = {}
    /\ writes = {}
    /\ calls = <<>>

TaskNext ==
    \/ TaskRunRaises
    \/ TaskLoadPrelude
    \/ TaskRunReturns

TaskSpec == TaskInit /\ [][TaskNext]_vars

(***************************************************************************)
(* One controller running several tasks one after another                  *)
(***************************************************************************)
\* the task ids of the tasks handed to the controller, in the order of the
\* calls of run
RunTasks == << <<"t">>, <<"u">> >>

\* run has returned to its caller, which calls run on the same controller
\* again
RunAgain ==
    /\ pc = "returned"
    /\ runs.count < MaxRuns
    /\ pc' = "idle"
    /\ UNCHANGED <<runs, given, ws, reader, recorder, par, applier, enforcer, executor, parsed,
                   budget, config, task, workspace, result, plan, attempt, pending,
                   event_log, history, worktrees, writes, calls>>

\* a controller as the parallel runner builds it (auto_approve), with a
\* test command and one test attempt
RunsInit ==
    /\ Init
    /\ config = [allow_core |-> FALSE, auto_approve |-> TRUE, test_command |-> <<"p">>,
                 max_fix_attempts |-> 1, pause_after_plan |-> TRUE,
                 pause_before_pr |-> TRUE]

\* the steps of run under this configuration: no prompt is shown and the
\* debugger is never reached
RunsNext ==
    \/ StartRun(RunTasks[runs.count + 1])
    \/ WorkspaceCreate
    \/ Index
    \/ Planner
    \/ Implementer
    \/ ApplyImplChange
    \/ ApplyImplTest
    \/ ApplyImplDone
    \/ TestRun
    \/ Security
    \/ Release
    \/ Archivist
    \/ WriteDoc
    \/ WriteDocsDone
    \/ Commit
    \/ Push
    \/ CreatePr
    \/ Cleanup
    \/ Record
    \/ RunAgain

RunsSpec == RunsInit /\ [][RunsNext]_vars

(***************************************************************************)
(* Controllers built with auto_approve, as the parallel runner builds them *)
(***************************************************************************)
AutoInit ==
    /\ Init
    /\ config.auto_approve

\* the steps of run under auto_approve: _confirm returns True at once, so
\* none of the four prompts is a step
AutoNext ==
    \/ \E t \in TaskIds : StartRun(t)
    \/ WorkspaceCreate
    \/ Index
    \/ Planner
    \/ Implementer
    \/ ApplyImplChange
    \/ ApplyImplTest
    \/ ApplyImplDone
    \/ TestRun
    \/ Debugger
    \/ FixLoopBreak
    \/ ApplyFixChange
    \/ NextAttempt
    \/ Security
    \/ Release
    \/ Archivist
    \/ WriteDoc
    \/ WriteDocsDone
    \/ Commit
    \/ Push
    \/ CreatePr
    \/ Cleanup
    \/ Record

AutoSpec == AutoInit /\ [][AutoNext]_vars

(***************************************************************************)
(* The security review with its parser: SecurityAgent.run inside run       *)
(***************************************************************************)
\* the verdicts a security response can carry
ReviewVerdicts == {"pass", "warn", "block"}

\* what SecurityAgent.parse_response tells apart in a response: it neither
\* looks for braces nor validates a schema
SecurityContents == { c \in Contents : c.braces = "none" /\ c.schema }

\* a fallback that blocks the change
SecurityVerdictBlocking(content, emitted) ==
    IF content.json = "error" THEN "block" ELSE emitted

\* sec.get("verdict") of the parsed result: the fallback dict carries
\* "warn", a decoded object the verdict the agent emitted
SecurityVerdictOf(content, emitted) ==
    IF content.json = "error" THEN "warn" ELSE emitted

\* _run_security with the response parsed by SecurityAgent.parse_response;
\* a response that decodes to a list or a number raises in the parser
SecurityReview ==
    /\ pc = "security"
    /\ calls' = Append(calls, "security")
    /\ \/ /\ \E exc \in Exceptions : Raise(exc)
          /\ UNCHANGED <<event_log, parsed>>
       \/ \E content \in SecurityContents, emitted \in ReviewVerdicts :
            LET r == SecurityParse(content)
            IN IF r.raised
               THEN /\ parsed' = [role |-> "security", content |-> content,
                                  result |-> r, verdict |-> "none"]
                    /\ Raise("error")
                    /\ UNCHANGED event_log
               ELSE /\ parsed' = [role |-> "security", content |-> content,
                                  result |-> r,
                                  verdict |-> SecurityVerdictOf(content, emitted)]
                    /\ SecurityReturns(SecurityVerdictOf(content, emitted))
    /\ UNCHANGED <<runs, given, ws, reader, recorder, par, applier, enforcer, executor, budget, config, task, workspace, plan, attempt, pending, history,
                   worktrees, writes>>

\* controllers that prompt the operator and have no test command
ReviewInit ==
    /\ Init
    /\ ~config.auto_approve
    /\ config.test_command = NoCommand

\* the steps of run without a test command: the fix loop is never entered
ReviewNext ==
    \/ \E t \in TaskIds : StartRun(t)
    \/ WorkspaceCreate
    \/ Index
    \/ Planner
    \/ PlanGate
    \/ Implementer
    \/ ApplyImplChange
    \/ ApplyImplTest
    \/ ApplyImplDone
    \/ SecurityReview
    \/ SecurityConfirm
    \/ Release
    \/ Archivist
    \/ WriteDoc
    \/ WriteDocsDone
    \/ Commit
    \/ PrConfirm
    \/ Push
    \/ CreatePr
    \/ Cleanup
    \/ Record

ReviewSpec == ReviewInit /\ [][ReviewNext]_vars

(***************************************************************************)
(* Properties                                                              *)
(***************************************************************************)
Count(q, x) == Cardinality({ i \in 1..Len(q) : q[i] = x })

Called(x) == \E i \in 1..Len(calls) : calls[i] = x

\* the prompt was shown and the operator gave this answer
Answered(prompt, answer) ==
    \E i \in 1..(Len(calls) - 1) : calls[i] = prompt /\ calls[i + 1] = answer

Left == pc \in {"finally", "record", "returned", "propagated"}

TerminalStatuses ==
    {"pr_created", "committed", "plan_failed", "implementation_failed",
     "boundary_violation", "tests_failed", "security_blocked", "pr_cancelled",
     "budget_exceeded", "interrupted", "error"}

C2_CleanupOnce ==
    /\ [](/\ Count(calls, "cleanup") <= 1
          /\ (pc \in {"record", "returned"} /\ Called("create"))
                => Count(calls, "cleanup") = 1
          /\ (Called("cleanup") /\ pc # "returned") => ~Called("record")
          /\ (~Left) => ~Called("cleanup"))
    /\ [][pc = "finally" =>
             /\ result' = result
             /\ \/ pc' = "record"
                \/ pc' = "propagated" /\ calls'[Len(calls')] = "cleanup_interrupted"]_vars

\* a run that was interrupted, whose cleanup raised, and which returned
\* the status of the interrupt
C2_Witness ==
    /\ pc = "returned"
    /\ Called("create")
    /\ Called("cleanup_raised")
    /\ result.status = "interrupted"

\* the pipeline order of a run; tests and debugger calls belong to the fix loop
StageOrder == <<"planner", "implementer", "fix_loop", "security", "release",
                "archivist", "commit", "push", "create_pr">>

IsStage(x) == x \in Range(StageOrder) \cup {"test", "test_violation", "debugger"}

Rank(x) ==
    CASE x = "planner" -> 1
      [] x = "implementer" -> 2
      [] x \in {"fix_loop", "test", "test_violation", "debugger"} -> 3
      [] x = "security" -> 4
      [] x = "release" -> 5
      [] x = "archivist" -> 6
      [] x = "commit" -> 7
      [] x = "push" -> 8
      [] x = "create_pr" -> 9
      [] OTHER -> 0

\* C3: the stages of a run are invoked in the order planner, implementer,
\* fix loop, security, release, archivist, commit, push, PR creation.  In
\* every state, the stage invoked last comes after every stage invoked before
\* it (only test runs and debugger calls repeat, inside the one fix loop), and
\* every earlier stage of the order has been invoked before it, the fix loop
\* being left out exactly when no test command is configured.  Every sequence
\* of calls of a run is the calls of some state, so this is the whole order.
C3_StageOrder ==
    LET n == Len(calls)
    IN (n > 0 /\ IsStage(calls[n])) =>
          /\ \A i \in 1..(n - 1) :
               IsStage(calls[i]) =>
                  /\ Rank(calls[i]) <= Rank(calls[n])
                  /\ Rank(calls[i]) = Rank(calls[n]) =>
                        /\ Rank(calls[n]) = 3
                        /\ calls[n] # "fix_loop"
          /\ \A r \in 1..(Rank(calls[n]) - 1) :
               \/ r = 3 /\ config.test_command = NoCommand
               \/ \E i \in 1..(n - 1) : calls[i] = StageOrder[r]
          /\ Rank(calls[n]) = 3 =>
                /\ config.test_command # NoCommand
                /\ calls[n] = "fix_loop" \/ Called("fix_loop")

\* a run through every stage, with a debugger call, that created the PR
C3_Witness ==
    /\ pc = "returned"
    /\ result.status = "pr_created"
    /\ Called("debugger")
    /\ Count(calls, "test") = 2

\* C4: the status run returns, and the status of every entry of the history
\* log, is one of the eleven terminal statuses, never the initial "pending".
C4_TerminalStatus ==
    /\ pc = "returned" => result.status \in TerminalStatuses
    /\ \A i \in 1..Len(history) : history[i].status \in TerminalStatuses

\* the operator declined to continue after a failed fix loop, and the run is
\* in the log
C4_Witness ==
    /\ pc = "returned"
    /\ result.status = "tests_failed"
    /\ Len(history) = 1
    /\ Answered("confirm_tests", "no")

\* the resolved path lies at or below a protected path of the directory
UnderProtected(t, dir) ==
    \E j \in 1..Len(ProtectedPaths) :
       LET d == ResolvePath(JoinPath(dir, ProtectedPaths[j]))
       IN Len(d) <= Len(t) /\ SubSeq(t, 1, Len(d)) = d

\* the plan in hand is an accepted plan (no parse_error, approved at the human
\* gate when there is one) that names a file under a protected path
ProtectedPlanAccepted ==
    /\ plan.present
    /\ ~plan.parse_error
    /\ (config.pause_after_plan /\ ~config.auto_approve)
          => Answered("confirm_plan", "yes")
    /\ \E f \in Range(PlanFiles(plan)) : UnderProtected(ResolvePath(f), <<>>)

\* C5: an accepted plan naming a protected file ends the run as
\* boundary_violation when allow_core is false: no implementer call, no write,
\* no commit, push or PR.  With allow_core true the same plan passes and the
\* next stage is the implementer.
C5_BoundaryGate ==
    ProtectedPlanAccepted =>
       IF config.allow_core
       THEN /\ pc = "implement" \/ Called("implementer")
            /\ result.status # "boundary_violation"
       ELSE /\ Left
            /\ result.status = "boundary_violation"
            /\ ~Called("implementer")
            /\ writes = {}
            /\ ~(Called("commit") \/ Called("push") \/ Called("create_pr"))

\* the operator approved a plan that the boundary check then refused
C5_Witness ==
    /\ ProtectedPlanAccepted
    /\ ~config.allow_core
    /\ Answered("confirm_plan", "yes")
    /\ pc = "returned"
    /\ result.status = "boundary_violation"

\* C6: with allow_core false, no path written or removed for an agent lies
\* under a protected path of the worktree.
C6_NoProtectedWrite ==
    ~config.allow_core =>
       \A t \in writes : ~UnderProtected(t, WorktreePath(task))

\* C7: every path written or removed for an agent lies inside the worktree
\* of the task.
C7_WritesInsideWorktree ==
    \A t \in writes :
       LET d == ResolvePath(WorktreePath(task))
       IN Len(d) < Len(t) /\ SubSeq(t, 1, Len(d)) = d

InFixLoop == pc \in {"test", "debug", "no_retry", "apply_fix"}

\* C8: one execution of the fix loop runs the test command at most
\* max_fix_attempts times and calls the debugger at most max_fix_attempts
\* times; inside the loop the attempt number stays within 1..max_fix_attempts
\* and every new iteration raises it by one, so the loop ends.
C8_FixLoopBounded ==
    /\ [](/\ Count(calls, "test") <= config.max_fix_attempts
          /\ Count(calls, "debugger") <= config.max_fix_attempts
          /\ InFixLoop => attempt \in 1..config.max_fix_attempts)
    /\ [][(pc = "apply_fix" /\ pc' # "apply_fix") => attempt' = attempt + 1]_vars

\* two failed test runs with max_fix_attempts = 2, the loop is over
C8_Witness ==
    /\ config.max_fix_attempts = 2
    /\ Count(calls, "test") = 2
    /\ Count(calls, "debugger") = 1
    /\ result.status = "tests_failed"
    /\ ~InFixLoop

\* the test run of the last attempt failed: every test run of the loop
\* failed and every debugger result asked for a retry
Exhausted ==
    /\ config.max_fix_attempts >= 1
    /\ \E i \in 1..Len(event_log) :
         /\ event_log[i].type = "tests_failed"
         /\ event_log[i].data.attempt = config.max_fix_attempts

FixLoopWithoutPass ==
    /\ Called("fix_loop")
    /\ ~InFixLoop
    /\ \A i \in 1..Len(event_log) : event_log[i].type # "tests_passed"

LaterStages == {"security", "release", "archivist", "commit", "push", "create_pr"}

\* C10: after a failed fix loop the operator is asked before anything else.
\* A decline ends the run as tests_failed with no later stage invoked.  After
\* a yes, or under auto-approve, the security review is the next stage, and
\* a run that went on never returns tests_failed.
C10_ContinueGate ==
    LET declined == Answered("confirm_tests", "no")
        accepted == Answered("confirm_tests", "yes")
        failed == FixLoopWithoutPass
        aborted == Left /\ result.status \in {"budget_exceeded", "interrupted", "error"}
    IN /\ declined =>
             /\ Left
             /\ result.status = "tests_failed"
             /\ \A x \in LaterStages : ~Called(x)
       /\ pc = "tests_confirm" => (result.status = "tests_failed" /\ ~config.auto_approve)
       /\ (~config.auto_approve /\ failed /\ Called("security")) => accepted
       /\ (~config.auto_approve /\ failed /\ ~Called("confirm_tests"))
             => (pc = "tests_confirm" \/ aborted)
       /\ (failed /\ (config.auto_approve \/ accepted))
             => (pc = "security" \/ Called("security") \/ aborted)
       /\ (pc = "returned" /\ result.status = "tests_failed") => declined

\* the operator continued after an exhausted loop and the run created a PR
C10_Witness ==
    /\ Exhausted
    /\ Answered("confirm_tests", "yes")
    /\ pc = "returned"
    /\ result.status = "pr_created"

\* the attempts on which a test run of this run passed
PassedAttempts ==
    { event_log[i].data.attempt :
        i \in { j \in 1..Len(event_log) : event_log[j].type = "tests_passed" } }

SecurityVerdicts ==
    { event_log[i].data.verdict :
        i \in { j \in 1..Len(event_log) : event_log[j].type = "security_review" } }

AfterSecurity == {"release", "archivist", "commit", "push", "create_pr"}

\* C12: a block verdict brings up the override prompt (unless auto-approve
\* answers it).  When the operator declines, the run ends as security_blocked
\* and release, archivist, commit, push and PR creation are never invoked;
\* when the operator overrides, the release assessment is next.  A run ends as
\* security_blocked only after a block verdict that the operator declined to
\* override.
C12_SecurityGate ==
    LET declined == Answered("confirm_security", "no")
        verdicts == SecurityVerdicts
    IN /\ declined =>
             /\ Left
             /\ result.status = "security_blocked"
             /\ \A x \in AfterSecurity : ~Called(x)
       /\ Answered("confirm_security", "yes") => (pc = "release" \/ Called("release"))
       /\ (~config.auto_approve /\ "block" \in verdicts)
             => (pc = "sec_confirm" \/ Called("confirm_security"))
       /\ Called("confirm_security") => "block" \in verdicts
       /\ result.status = "security_blocked" =>
             /\ verdicts = {"block"}
             /\ declined

\* the operator declined to override a block and the run returned
C12_Witness ==
    /\ pc = "returned"
    /\ result.status = "security_blocked"
    /\ Answered("confirm_security", "no")
    /\ SecurityVerdicts = {"block"}

ConfirmPrompts == {"confirm_plan", "confirm_tests", "confirm_security", "confirm_pr"}

\* the operator interrupted a prompt or the cleanup
Interrupted ==
    \/ \E p \in ConfirmPrompts : Answered(p, "interrupt")
    \/ Called("cleanup_interrupted")

\* C13: run never leaves by an exception; an operator interrupt, wherever it
\* arrives, gives status interrupted; a status set by an except clause means
\* the try body was left at that point (no stage runs afterwards), and the
\* message of the exception is in result.error exactly when the status is
\* error.
C13_ExceptionsHandled ==
    /\ pc # "propagated"
    /\ Interrupted => (Left /\ result.status = "interrupted")
    /\ result.status \in {"budget_exceeded", "interrupted", "error"} => Left
    /\ (result.status = "error") <=> (result.error # "none")

\* C14: whatever the terminal status, the entry in the history log carries
\* the router's budget summary and the summary of the events logged during
\* the run (plan_steps once a plan was created).
C14_EntryCarriesBudgetAndSummary ==
    \A i \in 1..Len(history) :
       /\ history[i].budget = "summary"
       /\ history[i].events_summary = SummarizeEvents(event_log)
       /\ (\E j \in 1..Len(event_log) : event_log[j].type = "plan_created")
             => "plan_steps" \in DOMAIN history[i].events_summary

\* C15: after every router return the counters are within the ceilings.
C15_BudgetWithinCeilings ==
    budget.last = "returned" =>
       /\ budget.total_tokens <= budget.max_tokens
       /\ budget.estimated_cost <= budget.max_cost

\* the push or the PR creation raised an exception
PushOrPrFailed == Answered("push", "failed") \/ Answered("create_pr", "failed")

\* C16: when the push or the PR creation fails, the run ends as committed with
\* branch = "glitchlab/" + task_id and no pr_url, and committed arises in no
\* other way; pr_created is the status only after a commit, a successful push
\* and a successful PR creation, and the result's pr_url is what the PR tool
\* returned; no other run has a pr_url.
C16_PushPrOutcome ==
    LET failed == PushOrPrFailed
    IN /\ failed =>
             /\ Left
             /\ result.status = "committed"
             /\ result.branch = <<"g", "l", "i", "t", "c", "h", "l", "a", "b", "/">> \o task
             /\ result.pr_url = "none"
       /\ result.status = "committed" => failed
       /\ result.status = "pr_created" =>
             /\ Called("commit") /\ Called("push") /\ Called("create_pr")
             /\ ~failed
             /\ result.pr_url = "url"
       /\ result.pr_url # "none" => result.status = "pr_created"

\* the push went through, the PR creation failed, and the run returned
C16_Witness ==
    /\ pc = "returned"
    /\ Answered("create_pr", "failed")
    /\ Called("push")
    /\ result.status = "committed"

\* C17: with pause_before_pr on (and no auto-approve) the "Create PR?" prompt
\* comes after the commit step and before any push.  When the operator
\* rejects it, the commit step has run, push and PR creation are never
\* invoked, and the run ends as pr_cancelled; pr_cancelled arises in no
\* other way.
C17_PauseBeforePr ==
    /\ Answered("confirm_pr", "no") =>
          /\ Left
          /\ result.status = "pr_cancelled"
          /\ ~Called("push") /\ ~Called("create_pr")
    /\ \A j \in 1..Len(calls) :
          calls[j] = "confirm_pr" =>
             /\ config.pause_before_pr
             /\ \E i \in 1..(j - 1) : calls[i] = "commit"
             /\ \A i \in 1..(j - 1) : calls[i] # "push"
    /\ (config.pause_before_pr /\ ~config.auto_approve /\ Called("push"))
          => Answered("confirm_pr", "yes")
    /\ result.status = "pr_cancelled" => Answered("confirm_pr", "no")

\* the operator rejected the prompt and the run returned
C17_Witness ==
    /\ pc = "returned"
    /\ config.pause_before_pr
    /\ Answered("confirm_pr", "no")
    /\ Called("commit")
    /\ result.status = "pr_cancelled"

\* no stage of the run wrote or removed a file and no test command ran
NothingWritten == writes = {} /\ ~Called("test")

\* C18: when the implementation changes no file and no later stage writes to
\* the worktree, the security review and the release assessment still run,
\* the commit step makes no commit, no PR is created, and a run that goes on
\* past the commit step ends as committed, never as pr_created.
C18_NoChangeNoPr ==
    (NothingWritten /\ Called("commit")) =>
       /\ Called("security") /\ Called("release")
       /\ \/ Answered("commit", "none")
          \/ Left /\ result.status \in {"error", "interrupted"}
       /\ result.status # "pr_created"
       /\ result.pr_url = "none"
       /\ (pc = "returned" /\ Called("push") /\ result.status # "interrupted")
             => result.status = "committed"

AfterPlan == {"check_plan", "implementer", "fix_loop", "test", "debugger", "security",
              "release", "archivist", "commit", "push", "create_pr"}

AfterImplementer == AfterPlan \ {"check_plan", "implementer"}

\* C19: a plan flagged parse_error ends the run as plan_failed with no
\* boundary check, no implementer call and no later stage; an implementer
\* result flagged parse_error ends the run as implementation_failed with
\* nothing written, no test run, no commit and no later stage.  Neither
\* status arises in any other way.
C19_FallbacksHalt ==
    /\ (plan.present /\ plan.parse_error) =>
          /\ pc \in {"plan_gate"} \/ (Left /\ result.status \in {"plan_failed", "interrupted"})
          /\ \A x \in AfterPlan : ~Called(x)
          /\ writes = {}
    /\ (pc = "returned" /\ plan.present /\ plan.parse_error /\ ~Interrupted)
          => result.status = "plan_failed"
    /\ result.status = "plan_failed" => (plan.present /\ plan.parse_error)
    /\ Answered("implementer", "parse_error") =>
          /\ Left
          /\ result.status = "implementation_failed"
          /\ \A x \in AfterImplementer : ~Called(x)
          /\ writes = {}
    /\ result.status = "implementation_failed" => Answered("implementer", "parse_error")

\* the planner's fallback ended the run before any boundary check
C19_Witness ==
    /\ pc = "returned"
    /\ plan.present /\ plan.parse_error
    /\ ~Called("confirm_plan")
    /\ result.status = "plan_failed"


\* the content decodes to an object of the role's schema, directly or as the
\* text between the outermost braces
ParsedAndValidated(content) ==
    /\ \/ content.json = "object"
       \/ content.json = "error" /\ content.braces = "object"
    /\ content.schema

\* C20: whatever the response content (text that is not JSON, JSON that is
\* not an object, an object that violates the schema), parse_response of
\* every role returns instead of raising, and what it returns is flagged
\* parse_error whenever the content could not be parsed and validated.
C20_ParseNeverRaises ==
    parsed # NoParse =>
       /\ ~parsed.result.raised
       /\ ~ParsedAndValidated(parsed.content) => parsed.result.parse_error


\* C21: a result that parse_response returns without the parse_error flag
\* is a decoded object with every required key of its role and every
\* enumerated field inside its domain; an object with a missing key or an
\* out-of-domain value yields the flagged fallback instead.
C21_ResultsConform ==
    parsed # NoParse /\ ~parsed.result.raised =>
       (~parsed.result.parse_error => parsed.content.schema)


\* C22: the deny check comes before the allow check. A command containing
\* a blocked pattern is refused as blocked, raises and is never spawned,
\* also when it matches the allow-list; a command matching no allow-list
\* entry raises and is never spawned either.
C22_DenyBeforeAllow ==
    /\ \A i \in 1..Len(executor.log) :
         LET r == executor.log[i]
         IN /\ IsBlocked(r.command) => ~r.allowed /\ r.stderr = "BLOCKED"
            /\ ~IsAllowedCommand(r.command) => ~r.allowed
            /\ ~r.allowed => r.command \notin Range(executor.spawned)
    /\ Len(executor.log) > 0 =>
         (executor.raised <=> ~executor.log[Len(executor.log)].allowed)

C22_Witness ==
    /\ Len(executor.log) > 0
    /\ LET r == executor.log[Len(executor.log)]
       IN /\ IsBlocked(r.command)
          /\ IsAllowedCommand(r.command)
          /\ executor.raised
          /\ executor.spawned = <<>>


\* str.split(): the whitespace-separated tokens of a command
RECURSIVE TokensFrom(_, _, _)
TokensFrom(s, i, cur) ==
    IF i > Len(s) THEN (IF cur = <<>> THEN <<>> ELSE <<cur>>)
    ELSE IF s[i] = SPACE
         THEN (IF cur = <<>> THEN <<>> ELSE <<cur>>) \o TokensFrom(s, i + 1, <<>>)
    ELSE TokensFrom(s, i + 1, Append(cur, s[i]))

Tokens(s) == TokensFrom(s, 1, <<>>)

\* the command's leading tokens are the tokens of some allow-list entry
TokenAllowed(command) ==
    \E i \in 1..Len(AllowedTools) : StartsWith(Tokens(command), Tokens(AllowedTools[i]))

\* C23: a command is spawned only if its leading token sequence matches the
\* tokens of some allow-list entry; a command whose first token merely
\* begins with the characters of an allowed entry is refused.
C23_TokenPrefixMatch ==
    \A i \in 1..Len(executor.log) :
       executor.log[i].allowed => TokenAllowed(executor.log[i].command)


\* the directory components a protected path names
Components(path) == SelectSeq(Split(path), LAMBDA c : c # <<>>)

\* some protected path is a prefix of the file, component by component
HasProtectedPrefix(protected, f) ==
    \E j \in 1..Len(protected) : StartsWith(Components(f), Components(protected[j]))

\* C24: check reports exactly the given files that lie under a protected
\* path, matched on whole path components, each of them once; it raises
\* BoundaryViolation when there are any and allow_core is false, and
\* otherwise returns that list.
C24_ExactViolations ==
    enforcer.called =>
       /\ enforcer.violations =
             SelectSeq(enforcer.files, LAMBDA f : HasProtectedPrefix(enforcer.protected, f))
       /\ enforcer.raised <=>
             /\ ~enforcer.allow_core
             /\ \E i \in 1..Len(enforcer.files) :
                   HasProtectedPrefix(enforcer.protected, enforcer.files[i])


\* position of the first exact occurrence of the search text, or 0
FirstOccurrence(content, search) ==
    LET hits == { k \in 1..(Len(content) - Len(search) + 1) :
                     SubSeq(content, k, k + Len(search) - 1) = search }
    IN IF hits = {} THEN 0 ELSE CHOOSE k \in hits : \A h \in hits : k <= h

ReplaceFirst(content, search, replace) ==
    LET k == FirstOccurrence(content, search)
    IN SubSeq(content, 1, k - 1) \o replace
          \o SubSeq(content, k + Len(search), Len(content))

\* the blocks applied in order to the current content; Absent when the
\* file is missing or some block's search text does not occur
RECURSIVE ApplyBlocks(_, _, _)
ApplyBlocks(content, blocks, i) ==
    IF content = Absent THEN Absent
    ELSE IF i > Len(blocks) THEN content
    ELSE IF FirstOccurrence(content, blocks[i].search) = 0 THEN Absent
    ELSE ApplyBlocks(ReplaceFirst(content, blocks[i].search, blocks[i].replace),
                     blocks, i + 1)

\* C25: a modify change with surgical blocks replaces, block by block in
\* order, the first exact occurrence of each search text by its replace
\* text, whatever patch and content the change also carries; when some
\* search text does not occur the file is left as it was.
C25_SurgicalBlocks ==
    applier.count > 0 /\ applier.change.action = "modify"
       /\ applier.change.surgical_blocks # <<>> =>
          LET r == ApplyBlocks(applier.before, applier.change.surgical_blocks, 1)
          IN applier.disk = IF r = Absent THEN applier.before ELSE r

\* the patch of the last change was tried and failed
PatchFailed ==
    /\ applier.count > 0
    /\ applier.change.action = "modify"
    /\ Truthy(applier.change.patch)
    /\ ~ApplyPatch(applier.before, applier.change.patch, applier.git_runs).success

PatchSucceeded ==
    /\ applier.count > 0
    /\ applier.change.action = "modify"
    /\ Truthy(applier.change.patch)
    /\ ApplyPatch(applier.before, applier.change.patch, applier.git_runs).success

\* C26: for a modify change carrying a patch: a patch that applies changes
\* the file alone and content is not written; a patch that fails with
\* content at hand leaves the file holding content and logs the fallback;
\* a patch that fails with no content leaves the file as it was and logs
\* the failure. A failed patch does not stop the loop: every create and
\* modify change, also one after a failed patch, is handled and logged.
C26_PatchFallback ==
    /\ PatchSucceeded =>
          /\ applier.disk = ApplyPatch(applier.before, applier.change.patch, TRUE).disk
          /\ applier.entry = <<"PATCH">>
    /\ PatchFailed /\ Truthy(applier.change.content) =>
          /\ applier.disk = applier.change.content
          /\ applier.entry = <<"MODIFY_FALLBACK">>
    /\ PatchFailed /\ ~Truthy(applier.change.content) =>
          /\ applier.disk = applier.before
          /\ applier.entry = <<"FAIL">>
    /\ applier.count > 0 /\ applier.change.action # "delete" =>
          /\ Len(applier.entry) = 1
          /\ applier.applied[Len(applier.applied)] = applier.entry[1]

\* a patch failed, the content was written instead, and a later change was
\* still applied
C26_Witness ==
    /\ applier.count = 2
    /\ Len(applier.applied) = 2
    /\ applier.applied[1] = "MODIFY_FALLBACK"
    /\ applier.applied[2] = "CREATE"
    /\ applier.disk = <<>>


\* the worker's Controller was constructed and its run has begun
InRun(i) == par.worker[i].task_id # NoTask

\* C27: every Controller that run_parallel starts has auto_approve set,
\* also when the caller passed auto_approve = False, so none of its gates
\* (plan approval, continue to PR, security override, create PR) waits for
\* an operator.
C27_WorkersAutoApprove ==
    par.started =>
       \A i \in Workers :
          InRun(i) => par.worker[i].auto_approve /\ ~par.worker[i].prompted

\* the caller passed auto_approve = False and a worker went through its
\* gates
C27_Witness ==
    /\ par.started
    /\ ~par.auto_approve
    /\ \E i \in Workers : par.worker[i].pc = "worked" /\ ~par.worker[i].prompted

\* C28: run_parallel returns one result per task file, in the order of
\* completion, and each result carries the id of the task it belongs to,
\* also when the worker of that task failed.
C28_OneResultPerTask ==
    par.started /\ par.returned =>
       /\ Len(par.results) = Len(par.files)
       /\ par.results = par.done
       /\ \A i \in Workers : \E k \in 1..Len(par.results) : par.results[k].index = i
       /\ \A k \in 1..Len(par.results) :
             par.results[k].result.task_id = TaskIdOf(par.files[par.results[k].index])

\* the worker holds a worktree and has not reached its cleanup
UsesWorktree(i) == par.worker[i].pc \in {"created", "worked"}

\* C29: tasks that run at the same time never share a worktree path or a
\* branch name, and the worktree of a worker that still uses it is not
\* removed by another worker, whatever task files are given.
C29_DistinctWorktrees ==
    par.started =>
       /\ \A i, j \in Workers :
             i # j /\ UsesWorktree(i) /\ UsesWorktree(j)
                => /\ WorktreePath(par.worker[i].task_id) # WorktreePath(par.worker[j].task_id)
                   /\ BranchName(par.worker[i].task_id) # BranchName(par.worker[j].task_id)
       /\ \A i \in Workers : UsesWorktree(i) => par.worker[i].task_id \in par.worktrees


\* the lines of the file that end with a line break
RECURSIVE LinesFrom(_, _, _)
LinesFrom(file, i, cur) ==
    IF i > Len(file) THEN <<>>
    ELSE IF file[i] = NEWLINE THEN <<cur>> \o LinesFrom(file, i + 1, <<>>)
    ELSE LinesFrom(file, i + 1, Append(cur, file[i]))

CompleteLines(file) == LinesFrom(file, 1, <<>>)

\* json.loads(line) gives one object: the braces enclose three values
\* separated by commas, and every backslash begins the escape \n
ParsesAsObject(line) ==
    /\ Len(line) >= 4
    /\ line[1] = "{"
    /\ line[Len(line)] = "}"
    /\ \A k \in 2..(Len(line) - 1) :
          /\ line[k] \notin {"{", "}"}
          /\ line[k] = BACKSLASH => k + 1 < Len(line) /\ line[k + 1] = "n"
    /\ Cardinality({ k \in 2..(Len(line) - 1) : line[k] = "," }) = 2

\* C30: the history file only grows. Every successful record adds exactly
\* one line behind the content that was there, whether one process records
\* or several interleave, and every complete line is one JSON object.
C30_AppendOnly ==
    /\ [](recorder.started =>
            /\ Len(CompleteLines(recorder.file)) = recorder.written
            /\ \A k \in 1..Len(CompleteLines(recorder.file)) :
                  ParsesAsObject(CompleteLines(recorder.file)[k]))
    /\ [][recorder.started =>
            /\ StartsWith(recorder'.file, recorder.file)
            /\ recorder'.written = recorder.written + 1 =>
                  Len(CompleteLines(recorder'.file)) = Len(CompleteLines(recorder.file)) + 1
            /\ recorder'.written = recorder.written => recorder'.file = recorder.file]_vars

\* both processes have appended, three lines in all and one of them with an
\* escaped line break, while a process holds a further line in its buffer
C30_Witness ==
    /\ recorder.started
    /\ recorder.written = 3
    /\ \E p \in Recorders : recorder.proc[p].pc = "buffered"
    /\ \E k \in 1..Len(recorder.file) : recorder.file[k] = BACKSLASH

\* the n newest elements of a list, in list order: none for n = 0
Newest(lst, n) ==
    IF n >= Len(lst) THEN lst ELSE SubSeq(lst, Len(lst) - n + 1, Len(lst))

\* C31: get_failures(n) returns the n most recent entries of the log whose
\* status is neither pr_created nor committed (all of them when there are
\* fewer than n), in log order, and never an entry with one of these two
\* statuses; build_failure_context(max) describes the max most recent failures.
C31_RecentFailures ==
    (reader.started /\ reader.op \in {"get_failures", "build_failure_context"}) =>
        /\ reader.result = Newest(SelectSeq(Decoded(reader.lines), IsFailure), reader.n)
        /\ \A i \in 1..Len(reader.result) :
             reader.result[i].status \notin {"pr_created", "committed"}

\* C36: for every n >= 0 and every content of the file, malformed lines
\* included, get_recent(n) returns the well-formed entries among the last n
\* lines in file order, hence at most n entries and none for n = 0; get_all
\* returns all well-formed entries in file order.
C36_ReadersSkipMalformed ==
    /\ (reader.started /\ reader.op = "get_recent") =>
          /\ reader.result = Decoded(Newest(reader.lines, reader.n))
          /\ Len(reader.result) <= reader.n
    /\ (reader.started /\ reader.op = "get_all") =>
          reader.result = Decoded(reader.lines)

\* C32: in the fix loop the fix changes of every debugger result are handed
\* to apply_changes before should_retry is examined: the changes of a result
\* leave the loop only by being applied, one at a time, also when
\* should_retry is false, and after a result with should_retry = false the
\* loop exits without another test run.
C32_FixAppliedBeforeRetryCheck ==
    /\ [][(InFixLoop /\ pending'.changes < pending.changes) =>
             (pc = "apply_fix" /\ pending'.changes = pending.changes - 1)]_vars
    /\ [][pc = "no_retry" => pc' \notin {"test", "debug"}]_vars

\* C33: after the Planner returns, the boundary check of the plan is made
\* before the approval prompt: the prompt is never shown before check_plan
\* has run, a run that ends as boundary_violation has not prompted the
\* operator, and a run whose plan the operator rejected ends without an
\* Implementer invocation.
C33_BoundaryBeforeApproval ==
    /\ \A i \in 1..Len(calls) :
          calls[i] = "confirm_plan" => \E j \in 1..(i - 1) : calls[j] = "check_plan"
    /\ result.status = "boundary_violation" => ~Called("confirm_plan")
    /\ Answered("confirm_plan", "no") =>
          /\ ~Called("implementer")
          /\ Left
          /\ result.status \notin {"pr_created", "committed"}

\* C34: a Workspace moves only Not-created -> Created -> Cleaned-up and
\* Cleaned-up is terminal: once cleanup has removed the worktree, no later
\* call of create, commit, push or cleanup on the same object recreates the
\* worktree directory.
C34_CleanedUpTerminal ==
    [][(ws.cleaned /\ ~ws.exists) => ~ws'.exists]_vars

\* C35: Controller.run treats the Task as immutable input: after run has
\* returned, on every exit path, task_id, objective, constraints (same
\* elements in the same order), acceptance_criteria, risk_level and source
\* equal their values before the call.
C35_TaskUnchanged ==
    given.stage = "returned" => given.task = given.before

\* C37: check_plan leaves the plan it is given unchanged: after the call,
\* whether it returned or raised BoundaryViolation, files_likely_affected
\* and the files of every step hold the same elements as before.
C37_CheckPlanKeepsPlan ==
    (enforcer.called /\ enforcer.op = "check_plan") =>
        /\ enforcer.plan_after.files_likely_affected
              = enforcer.plan_before.files_likely_affected
        /\ enforcer.plan_after.steps = enforcer.plan_before.steps

\* the events _log_event appended since the current run began
EventsOfRun == SubSeq(event_log, runs.first_event + 1, Len(event_log))

\* C38: when one controller runs several tasks one after another, the
\* events returned in a run's result and the events_summary recorded for it
\* hold only events logged during that run: every event carries the task id
\* of the run, and the summary is that of the run's own events.
C38_EventsOfThisRun ==
    (pc = "returned" /\ result.status \in {"pr_created", "committed"}) =>
        /\ \A i \in 1..Len(result.events) : result.events[i].task_id = result.task_id
        /\ result.events = EventsOfRun
        /\ HistoryEntry(result).events_summary = SummarizeEvents(EventsOfRun)

GatePositions == {"plan_gate", "tests_confirm", "sec_confirm", "pr_confirm"}

\* C39: with auto_approve no operator gate stops the pipeline: no prompt is
\* shown, a run never ends as tests_failed, security_blocked or
\* pr_cancelled, and after a block verdict or a failed fix loop the next
\* stage (release, security) is invoked as after a pass verdict or passing
\* tests.
C39_NoGateUnderAutoApprove ==
    config.auto_approve =>
       LET aborted == Left /\ result.status \in {"budget_exceeded", "interrupted", "error"}
       IN /\ pc \notin GatePositions
          /\ \A p \in ConfirmPrompts : ~Called(p)
          /\ Left => result.status \notin {"tests_failed", "security_blocked",
                                           "pr_cancelled"}
          /\ "block" \in SecurityVerdicts => (pc = "release" \/ Called("release"))
          /\ FixLoopWithoutPass =>
                (pc = "security" \/ Called("security") \/ aborted)

\* under auto_approve the fix loop failed, the security verdict was block,
\* and the run still ended with a pull request
C39_Witness ==
    /\ config.auto_approve
    /\ pc = "returned"
    /\ result.status = "pr_created"
    /\ FixLoopWithoutPass
    /\ "block" \in SecurityVerdicts

\* C40: a security response that is not JSON yields the fallback result,
\* verdict "warn" with parse_error set, and the controller treats it like
\* any verdict other than block: it goes on to the release assessment without
\* asking the operator, and the run never ends as security_blocked.
C40_UnparseableReviewWarns ==
    (parsed.role = "security" /\ parsed.content.json = "error") =>
        /\ ~parsed.result.raised
        /\ parsed.result.parse_error
        /\ parsed.verdict = "warn"
        /\ SecurityVerdicts = {"warn"}
        /\ pc # "sec_confirm"
        /\ ~Called("confirm_security")
        /\ pc = "release" \/ Called("release")
        /\ result.status # "security_blocked"

\* a controller that prompts got an unparseable review and the run ended
\* with a pull request
C40_Witness ==
    /\ parsed.role = "security"
    /\ parsed.content.json = "error"
    /\ ~config.auto_approve
    /\ pc = "returned"
    /\ result.status = "pr_created"

====
